---------------------------- MODULE Spec2Model ----------------------------
(***************************************************************************)
(* arc-isle: the type-grammar parser, the interface parser, the type usage *)
(* tracker and the schema assembler (src/src/parser, src/src/schema.rs).   *)
(*                                                                         *)
(* Texts are sequences of one-character strings, so that the character     *)
(* scans of the source are modelled as scans.  Indices into texts are the  *)
(* 0-based indices of the source; At(chars, i) reads chars[i].             *)
(*                                                                         *)
(* A YAML node is a record [kind, v]:                                      *)
(*   kind = "str"   v = the text         (Yaml::String)                    *)
(*   kind = "int"   v = the integer      (Yaml::Integer)                   *)
(*   kind = "hash"  v = sequence of [key, value] pairs, insertion order    *)
(*   kind = "array" v = sequence of nodes                                  *)
(*   kind = "bad"   v = 0                (any other node)                  *)
(***************************************************************************)
EXTENDS Integers, Sequences, FiniteSets, TLC

VARIABLES
    phase,        \* "types" | "interfaces" | "done": position of parse() in mod.rs
    level,        \* "none" before any source of the phase, "document" in the body
                  \* of a document the section imports, "imported" in a mapping
                  \* that document imports, "imported_list" in a sequence it imports
    src_i,        \* enumerate() index of the next entry of the current source
    types_usage,  \* HashMap<String, TypeUsageMeta>
    types,        \* Vec<Result<TypeDecl, TypeDeclError>>
    interfaces,   \* Vec<Result<InterfaceDecl, InterfaceDeclError>>
    outcome,      \* what parse() returned, and what it printed
    input,        \* the last entry read from a source: [key, value]
    src_keys,     \* keys already read from the current source (a YAML mapping
                  \* holds a key once)
    ndecls        \* entries read so far in this run

vars == <<phase, level, src_i, types_usage, types, interfaces, outcome, input,
          src_keys, ndecls>>

---------------------------------------------------------------------------
(* Texts *)

Lower == {"a","b","c","d","e","f","g","h","i","j","k","l","m",
          "n","o","p","q","r","s","t","u","v","w","x","y","z"}
Upper == {"A","B","C","D","U"}
Digits == {"0","1","2","3","4","5","6","7","8","9"}

is_alphabetic(c) == c \in Lower \cup Upper
is_numeric(c) == c \in Digits

At(chars, i) == chars[i + 1]

t_str == <<"s","t","r">>
t_bool == <<"b","o","o","l">>
t_int == <<"i","n","t">>
t_double == <<"d","o","u","b","l","e">>
t_array == <<"a","r","r","a","y">>
t_dict == <<"d","i","c","t">>
t_date_iso8601 == <<"d","a","t","e","_","i","s","o","8","6","0","1">>
t_url == <<"u","r","l">>
t_timestamp == <<"t","i","m","e","s","t","a","m","p">>
t_uuid == <<"u","u","i","d">>
t_import == <<"_","i","m","p","o","r","t">>
t_path == <<"p","a","t","h">>
t_method == <<"m","e","t","h","o","d">>
t_query == <<"q","u","e","r","y">>
t_body == <<"b","o","d","y">>
t_response == <<"r","e","s","p","o","n","s","e">>
t_declarations == <<"d","e","c","l","a","r","a","t","i","o","n","s">>
t_get == <<"g","e","t">>
t_post == <<"p","o","s","t">>
t_put == <<"p","u","t">>
t_delete == <<"d","e","l","e","t","e">>
t_head == <<"h","e","a","d">>
t_patch == <<"p","a","t","c","h">>

---------------------------------------------------------------------------
(* YAML nodes *)

YStr(s) == [kind |-> "str", v |-> s]
YInt(n) == [kind |-> "int", v |-> n]
YHash(pairs) == [kind |-> "hash", v |-> pairs]
YArray(items) == [kind |-> "array", v |-> items]
YBad == [kind |-> "bad", v |-> 0]
KV(k, val) == [key |-> k, value |-> val]

contains_key(hash, name) ==
    \E i \in 1..Len(hash) : hash[i].key = YStr(name)

\* hash[&key] for a key that is present
hash_index(hash, name) ==
    hash[CHOOSE i \in 1..Len(hash) : hash[i].key = YStr(name)].value

---------------------------------------------------------------------------
(* Results.  st = "ok" carries val, st = "err" carries err, st = "panic"   *)
(* is an out-of-bounds index or a failed unwrap: the process aborts.  tu   *)
(* is the tracker as the call leaves it.                                   *)

NoVal == [kind |-> "none"]
NoErr == [tag |-> "none"]
ROk(val, tu) == [st |-> "ok", val |-> val, err |-> NoErr, tu |-> tu]
RErr(e, tu) == [st |-> "err", val |-> NoVal, err |-> e, tu |-> tu]
RPanic(tu) == [st |-> "panic", val |-> NoVal, err |-> NoErr, tu |-> tu]

E(tag) == [tag |-> tag]
EArg(tag, arg) == [tag |-> tag, arg |-> arg]

\* Result<T, E> as the program stores it
Ok(val) == [ok |-> TRUE, val |-> val]
Err(e) == [ok |-> FALSE, err |-> e]
Stored(r) == IF r.st = "ok" THEN Ok(r.val) ELSE Err(r.err)

---------------------------------------------------------------------------
(* Type usage tracker *)

None == [some |-> FALSE, list |-> <<>>]
Some(list) == [some |-> TRUE, list |-> list]

\* HashMap::entry(key).or_insert(meta): an entry that is there is kept
insert_vacant(tu, key, meta) ==
    [k \in DOMAIN tu \cup {key} |-> IF k \in DOMAIN tu THEN tu[k] ELSE meta]

insert(tu, key, meta) ==
    [k \in DOMAIN tu \cup {key} |-> IF k = key THEN meta ELSE tu[k]]

EmptyUsage == [k \in {} |-> None]

\* TypeDeclSource
SrcType(i) == [kind |-> "Type", i |-> i]
SrcInterfaceInput(i) == [kind |-> "InterfaceInput", i |-> i]
SrcInterfaceOutput(i, code) == [kind |-> "InterfaceOutput", i |-> i, code |-> code]

\* UnknownType
InTypeDeclaration(ti, pi) == [kind |-> "InTypeDeclaration", i |-> ti, p |-> pi]
InPayload(ii, pi) == [kind |-> "InPayload", i |-> ii, p |-> pi]
InResponse(ii, code, pi) == [kind |-> "InResponse", i |-> ii, code |-> code, p |-> pi]

make_unknown(source) ==
    CASE source.kind = "Type" -> InTypeDeclaration(source.i, 0)
      [] source.kind = "InterfaceInput" -> InPayload(source.i, 0)
      [] source.kind = "InterfaceOutput" -> InResponse(source.i, source.code, 0)

\* handle_if_unknown_type recording the references of type bodies only
handle_if_unknown_type_in_types(tu, type_name, source) ==
    IF source.kind # "Type"
    THEN tu
    ELSE IF type_name \in DOMAIN tu
    THEN IF tu[type_name].some
         THEN insert(tu, type_name, Some(Append(tu[type_name].list, make_unknown(source))))
         ELSE tu
    ELSE insert(tu, type_name, Some(<<make_unknown(source)>>))

\* handle_if_unknown_type recording a reference to a declared name too
handle_if_unknown_type_declared(tu, type_name, source) ==
    IF type_name \in DOMAIN tu /\ tu[type_name].some
    THEN insert(tu, type_name, Some(Append(tu[type_name].list, make_unknown(source))))
    ELSE insert(tu, type_name, Some(<<make_unknown(source)>>))

\* handle_if_unknown_type keeping the last site only
handle_if_unknown_type_last(tu, type_name, source) ==
    IF type_name \in DOMAIN tu /\ ~tu[type_name].some
    THEN tu
    ELSE insert(tu, type_name, Some(<<make_unknown(source)>>))

handle_if_unknown_type(tu, type_name, source) ==
    IF type_name \in DOMAIN tu
    THEN IF tu[type_name].some
         THEN insert(tu, type_name, Some(Append(tu[type_name].list, make_unknown(source))))
         ELSE tu
    ELSE insert(tu, type_name, Some(<<make_unknown(source)>>))

---------------------------------------------------------------------------
(* Type grammar parser: src/src/parser/types.rs *)

Primitive(p) == [kind |-> "Primitive", p |-> p]
Array(elem) == [kind |-> "Array", elem |-> elem]
Dict(key, value) == [kind |-> "Dict", key |-> key, value |-> value]
Object(name) == [kind |-> "Object", name |-> name]
ObjectDecl(decl) == [kind |-> "ObjectDecl", decl |-> decl]
DataTypeDecl(data_type, is_required) ==
    [data_type |-> data_type, is_required |-> is_required]
PropertyDecl(name, data_type_decl) ==
    [name |-> name, data_type_decl |-> data_type_decl]
TypeDecl(name, property_decls) ==
    [name |-> name, property_decls |-> property_decls]

make_primitive(raw) ==
    CASE raw = t_str -> Ok("Str")
      [] raw = t_bool -> Ok("Bool")
      [] raw = t_int -> Ok("Int")
      [] raw = t_double -> Ok("Double")
      [] OTHER -> Err(EArg("UnsupportedPrimitive", raw))

\* The while loop of subtypes() with _i, n_open_braces, subtype_value and
\* subtypes.  subtypes_loop is a turn up to the comma test (245-258),
\* subtypes_push the rest of it (259-263), where chars[_i] is read again:
\* past the end, after the `_i += 2` of a comma, it panics.
RECURSIVE subtypes_loop(_, _, _, _, _)
RECURSIVE subtypes_push(_, _, _, _, _)

subtypes_loop(chars, i, n_open_braces, subtype_value, subs) ==
    IF i >= Len(chars)
    THEN [st |-> "ok", i |-> i, subs |-> subs]
    ELSE IF At(chars, i) = "]" /\ n_open_braces = 1
    THEN [st |-> "ok", i |-> i, subs |-> Append(subs, subtype_value)]
    ELSE IF At(chars, i) = ","
    THEN subtypes_push(chars, i + 2, n_open_braces, <<>>, Append(subs, subtype_value))
    ELSE subtypes_push(chars, i,
                       IF At(chars, i) = "]" THEN n_open_braces - 1 ELSE n_open_braces,
                       subtype_value, subs)

subtypes_push(chars, i, n_open_braces, subtype_value, subs) ==
    IF i >= Len(chars)
    THEN [st |-> "panic", i |-> i, subs |-> subs]
    ELSE subtypes_loop(chars, i + 1,
                       IF At(chars, i) = "[" THEN n_open_braces + 1 ELSE n_open_braces,
                       Append(subtype_value, At(chars, i)), subs)

\* subtypes() 265-271 on the loop's result r
subtypes_end(r, index) ==
    IF r.st = "panic"
    THEN [st |-> "panic", subs |-> <<>>, index |-> index]
    ELSE IF \E k \in 1..Len(r.subs) : r.subs[k] = <<>>
    THEN [st |-> "err", subs |-> <<>>, index |-> index]
    ELSE [st |-> "ok", subs |-> r.subs, index |-> r.i + 1]

\* [st, subs, index]: st = "ok" | "err" (SubtypeValuesEmptyDeclaration) | "panic"
subtypes(chars, index) ==
    IF At(chars, index) = "["
    THEN subtypes_end(subtypes_loop(chars, index + 1, 1, <<>>, <<>>), index)
    ELSE [st |-> "ok", subs |-> <<>>, index |-> index]

\* str::find("["), -1 for None
find_bracket(s) ==
    IF \E k \in 1..Len(s) : s[k] = "["
    THEN (CHOOSE k \in 1..Len(s) : s[k] = "[" /\ \A j \in 1..(k - 1) : s[j] # "[") - 1
    ELSE -1

\* Ok(DataType::Array(Box::new(contained_type))) after the `?` (189-190)
array_of(r) == IF r.st = "ok" THEN ROk(Array(r.val), r.tu) ELSE r

\* Ok(DataType::Dict(key, Box::new(value))) after the `?` (234-235)
dict_of(key, r) == IF r.st = "ok" THEN ROk(Dict(key, r.val), r.tu) ELSE r

RECURSIVE make_data_type(_, _, _, _)
RECURSIVE make_dict_data_type(_, _, _)
RECURSIVE make_dict_value(_, _, _, _, _)

make_data_type(type_name, subs, tu, source) ==
    IF make_primitive(type_name).ok
    THEN ROk(Primitive(make_primitive(type_name).val), tu)
    ELSE CASE type_name = t_array ->
                IF Len(subs) = 0
                THEN RPanic(tu)
                ELSE array_of(make_data_type(subs[1], <<>>, tu, source))
           [] type_name = t_dict -> make_dict_data_type(subs, tu, source)
           [] type_name = t_date_iso8601 -> ROk(Primitive("Str"), tu)
           [] type_name = t_url -> ROk(Primitive("Str"), tu)
           [] type_name = t_timestamp -> ROk(Primitive("Int"), tu)
           [] type_name = t_uuid -> ROk(Primitive("Str"), tu)
           [] OTHER ->
                ROk(Object(type_name), handle_if_unknown_type(tu, type_name, source))

\* make_dict_data_type 225-233: subtypes[0] and subtypes[1] are indexed
make_dict_data_type(subs, tu, source) ==
    IF Len(subs) = 0
    THEN RPanic(tu)
    ELSE IF ~make_primitive(subs[1]).ok
    THEN RErr(make_primitive(subs[1]).err, tu)
    ELSE IF Len(subs) < 2
    THEN RPanic(tu)
    ELSE IF find_bracket(subs[2]) >= 0
    THEN make_dict_value(make_primitive(subs[1]).val,
                         SubSeq(subs[2], 1, find_bracket(subs[2])),
                         subtypes(subs[2], find_bracket(subs[2])), tu, source)
    ELSE make_dict_value(make_primitive(subs[1]).val, subs[2],
                         [st |-> "ok", subs |-> <<>>, index |-> 0], tu, source)

\* make_dict_data_type 228-235, vs being the value's subtypes
make_dict_value(key, value_type_name, vs, tu, source) ==
    CASE vs.st = "panic" -> RPanic(tu)
      [] vs.st = "err" -> RErr(E("SubtypeValuesEmptyDeclaration"), tu)
      [] OTHER -> dict_of(key, make_data_type(value_type_name, vs.subs, tu, source))

\* The leading run of string_data_type_decl (118-125): the index after the
\* type name
RECURSIVE read_type_name(_, _)
read_type_name(chars, i) ==
    IF i < Len(chars)
       /\ (is_alphabetic(At(chars, i))
           \/ At(chars, i) = "_"
           \/ (i > 0 /\ is_numeric(At(chars, i))))
    THEN read_type_name(chars, i + 1)
    ELSE i

\* string_data_type_decl reading the last character of the expression for
\* the test of line 145
decl_of_last(chars, index, r) ==
    IF r.st # "ok"
    THEN r
    ELSE IF index >= Len(chars)
    THEN ROk(DataTypeDecl(r.val, TRUE), r.tu)
    ELSE ROk(DataTypeDecl(r.val, At(chars, Len(chars) - 1) # "?"), r.tu)

\* string_data_type_decl 138-152: r is the data type, index the index the
\* bracket group left
decl_of(chars, index, r) ==
    IF r.st # "ok"
    THEN r
    ELSE IF index >= Len(chars)
    THEN ROk(DataTypeDecl(r.val, TRUE), r.tu)
    ELSE ROk(DataTypeDecl(r.val, At(chars, index) # "?"), r.tu)

\* string_data_type_decl 136-137, s being the subtypes
decl_with_subtypes(chars, type_name, s, tu, source) ==
    CASE s.st = "panic" -> RPanic(tu)
      [] s.st = "err" -> RErr(E("SubtypeValuesEmptyDeclaration"), tu)
      [] OTHER -> decl_of(chars, s.index, make_data_type(type_name, s.subs, tu, source))

\* string_data_type_decl 126-137, the type name being the first
\* last_read_index characters
decl_after_name(chars, last_read_index, tu, source) ==
    IF last_read_index = 0
    THEN RErr(E("EmptyTypeDeclaration"), tu)
    ELSE IF last_read_index >= Len(chars)
    THEN decl_of(chars, last_read_index, make_data_type(chars, <<>>, tu, source))
    ELSE decl_with_subtypes(chars, SubSeq(chars, 1, last_read_index),
                            subtypes(chars, last_read_index), tu, source)

string_data_type_decl(string_value, tu, source) ==
    IF string_value = <<>>
    THEN RErr(E("EmptyTypeDeclaration"), tu)
    ELSE decl_after_name(string_value, read_type_name(string_value, 0), tu, source)

\* TypeParser::parse with make_data_type_decl and hash_data_type_decl.
\* type_parser_loop is the for loop of parse over self.value from pair k on,
\* property_decls being the declarations pushed so far; push_property is
\* lines 86-90 of a turn, r being the property's data_type_decl.
RECURSIVE type_parser_loop(_, _, _, _, _, _)
RECURSIVE push_property(_, _, _, _, _, _)
RECURSIVE hash_data_type_decl(_, _, _, _)
RECURSIVE make_data_type_decl(_, _, _, _)

make_data_type_decl(raw_type, property_name, tu, source) ==
    CASE raw_type.kind = "str" -> string_data_type_decl(raw_type.v, tu, source)
      [] raw_type.kind = "hash" -> hash_data_type_decl(property_name, raw_type.v, tu, source)
      [] OTHER -> RErr(E("UnsupportedTypeDeclaration"), tu)

\* TypeParser::parse with entry(key).or_insert(None) for the insert of line 92
type_parser_loop_or_insert(key, value, k, property_decls, tu, source) ==
    IF k > Len(value)
    THEN ROk(TypeDecl(key, property_decls),
             IF key \in DOMAIN tu THEN tu ELSE insert(tu, key, None))
    ELSE IF value[k].key.kind # "str"
    THEN RErr(E("UnsupportedKeyType"), tu)
    ELSE push_property(key, value, k, property_decls,
                       make_data_type_decl(value[k].value, value[k].key.v, tu, source),
                       source)

type_parser_loop(key, value, k, property_decls, tu, source) ==
    IF k > Len(value)
    THEN ROk(TypeDecl(key, property_decls), insert(tu, key, None))
    ELSE IF value[k].key.kind # "str"
    THEN RErr(E("UnsupportedKeyType"), tu)
    ELSE push_property(key, value, k, property_decls,
                       make_data_type_decl(value[k].value, value[k].key.v, tu, source),
                       source)

push_property(key, value, k, property_decls, r, source) ==
    IF r.st = "panic"
    THEN r
    ELSE type_parser_loop(key, value, k + 1,
                          Append(property_decls, PropertyDecl(value[k].key.v, Stored(r))),
                          r.tu, source)

TypeParser_parse(key, value, tu, source) ==
    type_parser_loop(key, value, 1, <<>>, tu, source)

\* hash_data_type_decl 170-175: map and map_err on the nested parse
object_decl_of(r) ==
    CASE r.st = "ok" -> ROk(DataTypeDecl(ObjectDecl(r.val), TRUE), r.tu)
      [] r.st = "err" -> RErr(E("UnsupportedTypeDeclaration"), r.tu)
      [] OTHER -> r

hash_data_type_decl(property_name, hash_value, tu, source) ==
    IF hash_value = <<>>
    THEN RErr(E("EmptyTypeDeclaration"), tu)
    ELSE object_decl_of(TypeParser_parse(property_name, hash_value, tu, source))

---------------------------------------------------------------------------
(* Interface parser: src/src/parser/interfaces.rs *)

Fixed(n) == [kind |-> "Fixed", val |-> n]
Prefix(n) == [kind |-> "Prefix", val |-> n]

NoPayload == [kind |-> "None"]
Query(props) == [kind |-> "Query", props |-> props]
Body(props) == [kind |-> "Body", props |-> props]

NoResponses == [some |-> FALSE]
SomeResponses(map) == [some |-> TRUE, map |-> map]

ApiSpec(method, payload, responses) ==
    [method |-> method, payload |-> payload, responses |-> responses]
InterfaceDecl(ident, params, spec) ==
    [ident |-> ident, params |-> params, spec |-> spec]

DigitVal(c) ==
    CASE c = "0" -> 0 [] c = "1" -> 1 [] c = "2" -> 2 [] c = "3" -> 3 [] c = "4" -> 4
      [] c = "5" -> 5 [] c = "6" -> 6 [] c = "7" -> 7 [] c = "8" -> 8 [] c = "9" -> 9

DigitChar(d) ==
    CASE d = 0 -> "0" [] d = 1 -> "1" [] d = 2 -> "2" [] d = 3 -> "3" [] d = 4 -> "4"
      [] d = 5 -> "5" [] d = 6 -> "6" [] d = 7 -> "7" [] d = 8 -> "8" [] d = 9 -> "9"

\* Integer to_string
RECURSIVE nat_to_string(_)
nat_to_string(n) ==
    IF n < 10 THEN <<DigitChar(n)>>
    ELSE Append(nat_to_string(n \div 10), DigitChar(n % 10))

int_to_string(n) == IF n < 0 THEN <<"-">> \o nat_to_string(-n) ELSE nat_to_string(n)

U16Max == 65535

\* str::parse::<u16>(): an optional `+`, then one or more digits, no overflow
RECURSIVE digits_value(_, _)
digits_value(chars, acc) ==
    IF chars = <<>> THEN acc
    ELSE IF acc > U16Max THEN acc
    ELSE digits_value(Tail(chars), acc * 10 + DigitVal(Head(chars)))

parse_u16(key) ==
    LET digits == IF key # <<>> /\ Head(key) = "+" THEN Tail(key) ELSE key
    IN  IF digits # <<>>
           /\ (\A k \in 1..Len(digits) : digits[k] \in Digits)
           /\ digits_value(digits, 0) <= U16Max
        THEN Ok(digits_value(digits, 0))
        ELSE Err(E("ParseIntError"))

\* Display for StatusCode
status_code_to_string(code) ==
    IF code.kind = "Fixed" THEN nat_to_string(code.val)
    ELSE nat_to_string(code.val) \o <<"x", "x">>

\* The for loop of get_params from character k on.
RECURSIVE get_params_loop(_, _, _, _, _)
get_params_loop(ident, k, params, param, reading_param) ==
    IF k > Len(ident)
    THEN Ok(params)
    ELSE CASE ident[k] = "{" -> get_params_loop(ident, k + 1, params, param, TRUE)
           [] ident[k] = "}" ->
                IF param = <<>>
                THEN Err(E("EmptyParam"))
                ELSE get_params_loop(ident, k + 1, Append(params, param), <<>>, FALSE)
           [] OTHER ->
                get_params_loop(ident, k + 1, params,
                                IF reading_param THEN Append(param, ident[k]) ELSE param,
                                reading_param)

\* get_params with reading_param initialised to true
get_params_reading(ident) == get_params_loop(ident, 1, <<>>, <<>>, TRUE)

get_params(ident) == get_params_loop(ident, 1, <<>>, <<>>, FALSE)

\* [st, val, err] without a tracker: st = "panic" is hash[&key] on a missing key
get_ident(hash) ==
    IF ~contains_key(hash, t_path)
    THEN [st |-> "panic", val |-> NoVal, err |-> NoErr]
    ELSE IF hash_index(hash, t_path).kind # "str"
    THEN [st |-> "err", val |-> NoVal, err |-> E("InvalidIdent")]
    ELSE [st |-> "ok", val |-> hash_index(hash, t_path).v, err |-> NoErr]

get_method(hash) ==
    IF ~contains_key(hash, t_method)
    THEN [st |-> "panic", val |-> NoVal, err |-> NoErr]
    ELSE IF hash_index(hash, t_method).kind # "str"
    THEN [st |-> "err", val |-> NoVal, err |-> E("InvalidMethod")]
    ELSE LET raw_method == hash_index(hash, t_method).v
         IN  CASE raw_method = t_get -> [st |-> "ok", val |-> "Get", err |-> NoErr]
               [] raw_method = t_post -> [st |-> "ok", val |-> "Post", err |-> NoErr]
               [] raw_method = t_put -> [st |-> "ok", val |-> "Put", err |-> NoErr]
               [] raw_method = t_delete -> [st |-> "ok", val |-> "Delete", err |-> NoErr]
               [] raw_method = t_head -> [st |-> "ok", val |-> "Head", err |-> NoErr]
               [] raw_method = t_patch -> [st |-> "ok", val |-> "Patch", err |-> NoErr]
               [] OTHER -> [st |-> "err", val |-> NoVal, err |-> E("InvalidMethod")]

\* get_query_if_has wrapping the properties in HttpPayload::Body
query_of_as_body(r) ==
    CASE r.st = "ok" -> ROk(Body(r.val.property_decls), r.tu)
      [] r.st = "err" -> RErr(E("InvalidQuery"), r.tu)
      [] OTHER -> r

\* get_query_if_has 253-257 on the parsed mapping
query_of(r) ==
    CASE r.st = "ok" -> ROk(Query(r.val.property_decls), r.tu)
      [] r.st = "err" -> RErr(E("InvalidQuery"), r.tu)
      [] OTHER -> r

get_query_if_has(hash, tu) ==
    IF ~contains_key(hash, t_query)
    THEN ROk(NoPayload, tu)
    ELSE IF hash_index(hash, t_query).kind # "hash"
    THEN RErr(E("InvalidQuery"), tu)
    ELSE query_of(TypeParser_parse(t_query, hash_index(hash, t_query).v, tu,
                                   SrcInterfaceInput(0)))

\* get_body_if_has 277-281 on the parsed mapping
body_of(r) ==
    CASE r.st = "ok" -> ROk(Body(r.val.property_decls), r.tu)
      [] r.st = "err" -> RErr(E("InvalidBody"), r.tu)
      [] OTHER -> r

get_body_if_has(hash, tu) ==
    IF ~contains_key(hash, t_body)
    THEN ROk(NoPayload, tu)
    ELSE IF hash_index(hash, t_body).kind # "hash"
    THEN RErr(E("InvalidBody"), tu)
    ELSE body_of(TypeParser_parse(t_body, hash_index(hash, t_body).v, tu,
                                  SrcInterfaceInput(0)))

\* get_payload looking for the forbidden key only when the permitted key is
\* absent
get_payload_permitted_first(method, hash, tu) ==
    CASE method \in {"Get", "Head"} ->
            IF contains_key(hash, t_query)
            THEN get_query_if_has(hash, tu)
            ELSE IF contains_key(hash, t_body)
            THEN RErr(E("BodyNotAllowed"), tu)
            ELSE ROk(NoPayload, tu)
      [] method \in {"Post", "Put", "Patch"} ->
            IF contains_key(hash, t_body)
            THEN get_body_if_has(hash, tu)
            ELSE IF contains_key(hash, t_query)
            THEN RErr(E("QueryNotAllowed"), tu)
            ELSE ROk(NoPayload, tu)
      [] method = "Delete" ->
            IF contains_key(hash, t_query)
            THEN RErr(E("QueryNotAllowed"), tu)
            ELSE IF contains_key(hash, t_body)
            THEN RErr(E("BodyNotAllowed"), tu)
            ELSE ROk(NoPayload, tu)

\* get_payload testing `body` before `query` for delete
get_payload_body_first(method, hash, tu) ==
    CASE method \in {"Get", "Head"} ->
            IF contains_key(hash, t_body)
            THEN RErr(E("BodyNotAllowed"), tu)
            ELSE get_query_if_has(hash, tu)
      [] method \in {"Post", "Put", "Patch"} ->
            IF contains_key(hash, t_query)
            THEN RErr(E("QueryNotAllowed"), tu)
            ELSE get_body_if_has(hash, tu)
      [] method = "Delete" ->
            IF contains_key(hash, t_body)
            THEN RErr(E("BodyNotAllowed"), tu)
            ELSE IF contains_key(hash, t_query)
            THEN RErr(E("QueryNotAllowed"), tu)
            ELSE ROk(NoPayload, tu)

get_payload(method, hash, tu) ==
    CASE method \in {"Get", "Head"} ->
            IF contains_key(hash, t_body)
            THEN RErr(E("BodyNotAllowed"), tu)
            ELSE get_query_if_has(hash, tu)
      [] method \in {"Post", "Put", "Patch"} ->
            IF contains_key(hash, t_query)
            THEN RErr(E("QueryNotAllowed"), tu)
            ELSE get_body_if_has(hash, tu)
      [] method = "Delete" ->
            IF contains_key(hash, t_query)
            THEN RErr(E("QueryNotAllowed"), tu)
            ELSE IF contains_key(hash, t_body)
            THEN RErr(E("BodyNotAllowed"), tu)
            ELSE ROk(NoPayload, tu)

\* parse_response 201-203: map_err on the parse
response_decl_of(r) ==
    IF r.st = "err" THEN RErr(E("InvalidResponseTypeDeclaration"), r.tu) ELSE r

parse_response(key, hash, tu) ==
    response_decl_of(TypeParser_parse(status_code_to_string(key), hash, tu,
                                      SrcInterfaceOutput(0, key)))

\* self.types.iter().find(|e| e is Ok and e.name == name): its index, 0 for None
find_type(tys, name) ==
    IF \E k \in 1..Len(tys) : tys[k].ok /\ tys[k].val.name = name
    THEN CHOOSE k \in 1..Len(tys) :
             /\ tys[k].ok /\ tys[k].val.name = name
             /\ \A j \in 1..(k - 1) : ~(tys[j].ok /\ tys[j].val.name = name)
    ELSE 0

\* The match on type_decl giving an empty declaration for a name not found
named_type_decl_empty(tys, name, tu) ==
    IF find_type(tys, name) > 0
    THEN ROk(TypeDecl(name, tys[find_type(tys, name)].val.property_decls), tu)
    ELSE ROk(TypeDecl(name, <<>>), tu)

\* The match on type_decl of get_response 98-110 and response_type_decl 175-184
named_type_decl(tys, name, tu) ==
    IF find_type(tys, name) > 0
    THEN ROk(TypeDecl(name, tys[find_type(tys, name)].val.property_decls), tu)
    ELSE RErr(EArg("TypeNotFound", name), tu)

response_type_decl(node, tys, tu) ==
    CASE node.kind = "hash" -> parse_response(Fixed(200), node.v, tu)
      [] node.kind = "str" -> named_type_decl(tys, node.v, tu)
      [] OTHER -> RErr(E("InvalidResponseDeclaration"), tu)

as_status_code_pattern(key) ==
    IF key = <<>> THEN Err(E("InvalidStatusCode"))
    ELSE IF Head(key) \notin Digits THEN Err(E("InvalidStatusCode"))
    ELSE Ok(Prefix(DigitVal(Head(key))))

has_custom_response_codes(hash) ==
    \E k \in 1..Len(hash) :
        /\ hash[k].key.kind = "str"
        /\ hash[k].key.v # <<>>
        /\ Head(hash[k].key.v) \in Digits

\* custom_responses 144-148 on the key's text
status_code_of(key) ==
    IF parse_u16(key).ok THEN Ok(Fixed(parse_u16(key).val))
    ELSE as_status_code_pattern(key)

\* custom_responses 139-143
response_key(node) ==
    CASE node.kind = "str" -> Ok(node.v)
      [] node.kind = "int" -> Ok(int_to_string(node.v))
      [] OTHER -> Err(E("InvalidKey"))

\* The for loop of custom_responses from pair k on: custom_responses_loop up
\* to the status code, custom_responses_type to the type declaration,
\* custom_responses_insert the insert.
RECURSIVE custom_responses_loop(_, _, _, _, _)
RECURSIVE custom_responses_type(_, _, _, _, _, _)
RECURSIVE custom_responses_insert(_, _, _, _, _, _)

custom_responses_loop(hash, k, responses, tys, tu) ==
    IF k > Len(hash)
    THEN ROk(SomeResponses(responses), tu)
    ELSE IF ~response_key(hash[k].key).ok
    THEN RErr(response_key(hash[k].key).err, tu)
    ELSE custom_responses_type(hash, k, responses,
                               status_code_of(response_key(hash[k].key).val), tys, tu)

custom_responses_type(hash, k, responses, status_code, tys, tu) ==
    IF ~status_code.ok
    THEN RErr(status_code.err, tu)
    ELSE custom_responses_insert(hash, k, responses, status_code.val, tys,
                                 response_type_decl(hash[k].value, tys, tu))

custom_responses_insert(hash, k, responses, status_code, tys, r) ==
    IF r.st # "ok"
    THEN r
    ELSE custom_responses_loop(hash, k + 1, insert(responses, status_code, r.val),
                               tys, r.tu)

custom_responses(hash, tys, tu) ==
    custom_responses_loop(hash, 1, [c \in {} |-> NoVal], tys, tu)

\* HashMap::from([(StatusCode::Fixed(200), type_decl)]) after the `?`
single_response(r) ==
    IF r.st = "ok"
    THEN ROk(SomeResponses([c \in {Fixed(200)} |-> r.val]), r.tu)
    ELSE r

responses_from(hash, tys, tu) ==
    IF has_custom_response_codes(hash)
    THEN custom_responses(hash, tys, tu)
    ELSE single_response(parse_response(Fixed(200), hash, tu))

get_response(hash, tys, tu) ==
    IF ~contains_key(hash, t_response)
    THEN ROk(NoResponses, tu)
    ELSE CASE hash_index(hash, t_response).kind = "hash" ->
                  responses_from(hash_index(hash, t_response).v, tys, tu)
           [] hash_index(hash, t_response).kind = "str" ->
                  single_response(named_type_decl(tys, hash_index(hash, t_response).v, tu))
           [] OTHER -> RErr(E("InvalidResponseDeclaration"), tu)

\* InterfaceParser::parse 71-83 on the parsed responses
interface_decl_of(ident, params, method, payload, responses) ==
    IF responses.st # "ok"
    THEN responses
    ELSE ROk(InterfaceDecl(ident, params, ApiSpec(method, payload, responses.val)),
             responses.tu)

\* InterfaceParser::parse 70-71 on the parsed payload
parse_after_payload(hash, tys, ident, params, method, payload) ==
    IF payload.st # "ok"
    THEN payload
    ELSE interface_decl_of(ident, params, method, payload.val,
                           get_response(hash, tys, payload.tu))

\* InterfaceParser::parse 69-70 on the parsed method
parse_after_method(hash, tys, tu, ident, params, method) ==
    CASE method.st = "panic" -> RPanic(tu)
      [] method.st = "err" -> RErr(method.err, tu)
      [] OTHER -> parse_after_payload(hash, tys, ident, params, method.val,
                                      get_payload(method.val, hash, tu))

\* InterfaceParser::parse 68-69 on the parsed params
parse_after_params(hash, tys, tu, ident, params) ==
    IF ~params.ok
    THEN RErr(params.err, tu)
    ELSE parse_after_method(hash, tys, tu, ident, params.val, get_method(hash))

\* InterfaceParser::parse 67-68 on the parsed ident
parse_after_ident(hash, tys, tu, ident) ==
    CASE ident.st = "panic" -> RPanic(tu)
      [] ident.st = "err" -> RErr(ident.err, tu)
      [] OTHER -> parse_after_params(hash, tys, tu, ident.val, get_params(ident.val))

InterfaceParser_parse(hash, tys, tu) ==
    parse_after_ident(hash, tys, tu, get_ident(hash))

---------------------------------------------------------------------------
(* Schema assembler: parse() of src/src/parser/mod.rs, with the loops of   *)
(* TypesParser::parse and InterfacesParser::parse.  The documents are read *)
(* as the run goes: each step reads the next source, or the next entry of  *)
(* the current source, from the input sets below.                          *)

MaxDecls == 2

nA == <<"A">>
nB == <<"B">>
nC == <<"C">>
px == <<"x">>
py == <<"y">>
e_arrayB == <<"a","r","r","a","y","[","B","]","?">>
e_news == <<"n","e","w","s">>
e_200 == <<"2","0","0">>
e_4xx == <<"4","x","x">>

TypeBodies ==
    { YHash(<<KV(YStr(px), YStr(nA))>>),
      YHash(<<KV(YStr(px), YStr(nB)), KV(YStr(py), YStr(nA))>>),
      YHash(<<KV(YStr(px), YStr(t_int))>>),
      YHash(<<KV(YStr(nA), YHash(<<KV(YStr(px), YStr(t_int))>>))>>),
      YHash(<<KV(YStr(px), YStr(nA)), KV(YInt(1), YStr(t_int))>>),
      YHash(<<KV(YStr(px), YStr(e_arrayB))>>) }

TypeEntries ==
    { KV(YStr(n), b) : n \in {nA, nB}, b \in TypeBodies }
    \cup { KV(YStr(t_import), YStr(e_news)),
           KV(YInt(1), YHash(<<KV(YStr(px), YStr(t_int))>>)),
           KV(YStr(nB), YStr(t_int)) }

Iface(method, rest) ==
    YHash(<<KV(YStr(t_path), YStr(e_news)), KV(YStr(t_method), YStr(method))>> \o rest)

InterfaceItems ==
    { Iface(t_get, <<KV(YStr(t_query), YHash(<<KV(YStr(px), YStr(nA))>>))>>),
      Iface(t_post, <<KV(YStr(t_body), YHash(<<KV(YStr(px), YStr(nC))>>))>>),
      Iface(t_get, <<KV(YStr(t_response), YStr(nA))>>),
      Iface(t_get, <<KV(YStr(t_response), YHash(<<KV(YStr(px), YStr(nB))>>))>>),
      Iface(t_get, <<KV(YStr(t_response),
                        YHash(<<KV(YInt(200), YHash(<<KV(YStr(px), YStr(nA))>>)),
                                KV(YStr(e_4xx), YStr(nB))>>))>>),
      Iface(t_get, <<KV(YStr(t_query), YHash(<<KV(YStr(px), YStr(nB))>>)),
                     KV(YStr(t_response), YStr(nA))>>),
      Iface(t_delete, <<KV(YStr(t_body), YHash(<<KV(YStr(px), YStr(t_int))>>))>>),
      YHash(<<KV(YStr(t_import), YStr(e_news))>>),
      YStr(e_news) }

NoInput == KV(YBad, YBad)

Running == [kind |-> "running", err |-> NoErr, list |-> <<>>, printed |-> <<>>]
Aborted(e) == [kind |-> "abort", err |-> e, list |-> <<>>, printed |-> <<>>]
Panicked == [kind |-> "panic", err |-> NoErr, list |-> <<>>, printed |-> <<>>]

Init ==
    /\ phase = "types"
    /\ level = "none"
    /\ src_i = 0
    /\ types_usage = EmptyUsage
    /\ types = <<>>
    /\ interfaces = <<>>
    /\ outcome = Running
    /\ input = NoInput
    /\ src_keys = {}
    /\ ndecls = 0

\* parse() returns early, on a `?` or a panic: its locals (the results, the
\* tracker, the parsers) are dropped
Stop(result) ==
    /\ phase' = "done"
    /\ outcome' = result
    /\ level' = "none"
    /\ src_i' = 0
    /\ src_keys' = {}
    /\ types_usage' = EmptyUsage
    /\ types' = <<>>
    /\ interfaces' = <<>>
    /\ input' = NoInput
    /\ ndecls' = 0

\* mod.rs 43-46: an entry of the body of the `types` section of main.yaml
\* itself.  detect looks for `_import` in the section and the loop of 52-54
\* hands the imported documents to the parser; the entry is given to no
\* parser, so the step leaves the results and the tracker as they are.
PassRootTypeEntry(entry) ==
    /\ phase = "types"
    /\ level = "none"
    /\ input' = entry
    /\ UNCHANGED <<phase, outcome, level, src_i, src_keys, types_usage, types,
                   interfaces, ndecls>>

\* mod.rs 55-58, 65-67: likewise a declaration of the body of the
\* `interfaces` section of main.yaml itself
PassRootInterfaceItem(item) ==
    /\ phase = "interfaces"
    /\ level = "none"
    /\ input' = KV(YBad, item)
    /\ UNCHANGED <<phase, outcome, level, src_i, src_keys, types_usage, types,
                   interfaces, ndecls>>

\* parse_composed_source 50-52: the fragment being read was imported by a
\* document and holds `_import` itself; the key is passed over with
\* `continue` and detect is called on documents only (TypesParser::parse
\* 25), so an entry of a fragment that this fragment imports is given to no
\* parser and the step leaves the results and the tracker as they are.
PassChainedTypeEntry(entry) ==
    /\ phase = "types"
    /\ level = "imported"
    /\ YStr(t_import) \in src_keys
    /\ input' = entry
    /\ UNCHANGED <<phase, outcome, level, src_i, src_keys, types_usage, types,
                   interfaces, ndecls>>

\* mod.rs 52-53, `import?`: a document the types section imports cannot be read
TypesImportFails ==
    /\ phase = "types"
    /\ Stop(Aborted(EArg("ImportError", "IOError")))

\* mod.rs 53 with TypesParser::parse 20-31: the next document the types
\* section imports; it is the first of its own sources
TypesBeginDocument(is_hash) ==
    /\ phase = "types"
    /\ IF is_hash
       THEN /\ level' = "document"
            /\ src_i' = 0
            /\ src_keys' = {}
            /\ UNCHANGED <<phase, outcome, types_usage, types, interfaces, input, ndecls>>
       ELSE Stop(Aborted(EArg("ImportFailure", "InvalidInputSource")))

\* TypesParser::parse 29-35 and parse_composed_source 44-46: the next source
\* the current document imports
TypesBeginImported(source) ==
    /\ phase = "types"
    /\ level \in {"document", "imported"}
    /\ CASE source = "hash" ->
              /\ level' = "imported"
              /\ src_i' = 0
              /\ src_keys' = {}
              /\ UNCHANGED <<phase, outcome, types_usage, types, interfaces, input, ndecls>>
         [] source = "other" ->
              Stop(Aborted(E("UnsupportedTypeDeclaration")))
         [] source = "failed" ->
              /\ ndecls < MaxDecls
              /\ ndecls' = ndecls + 1
              /\ types' = Append(types, Err(EArg("ImportFailure", "IOError")))
              /\ level' = "imported"
              /\ src_i' = 0
              /\ src_keys' = {}
              /\ UNCHANGED <<phase, outcome, types_usage, interfaces, input>>

\* parse_composed_source 59-60: the result r of the parser is pushed; a panic
\* ends the run
PushType(entry, r) ==
    IF r.st = "panic"
    THEN Stop(Panicked)
    ELSE /\ types_usage' = r.tu
         /\ types' = Append(types, Stored(r))
         /\ input' = entry
         /\ ndecls' = ndecls + 1
         /\ src_keys' = src_keys \cup {entry.key}
         /\ src_i' = src_i + 1
         /\ UNCHANGED <<phase, outcome, level, interfaces>>

\* One turn of the for loop of parse_composed_source (47-61)
ParseTypeEntry(entry) ==
    /\ phase = "types"
    /\ level \in {"document", "imported"}
    /\ ndecls < MaxDecls
    /\ entry.key \notin src_keys
    /\ IF entry.key.kind # "str"
       THEN Stop(Aborted(E("UnsupportedKeyType")))
       ELSE IF entry.key.v = t_import
       THEN /\ input' = entry
            /\ ndecls' = ndecls + 1
            /\ src_keys' = src_keys \cup {entry.key}
            /\ src_i' = src_i + 1
            /\ UNCHANGED <<phase, outcome, level, types_usage, types, interfaces>>
       ELSE IF entry.value.kind # "hash"
       THEN Stop(Panicked)
       ELSE PushType(entry, TypeParser_parse(entry.key.v, entry.value.v, types_usage,
                                             SrcType(src_i)))

\* mod.rs 55-58: the types phase is over
EndTypes(is_hash) ==
    /\ phase = "types"
    /\ IF is_hash
       THEN /\ phase' = "interfaces"
            /\ level' = "none"
            /\ src_i' = 0
            /\ src_keys' = {}
            /\ UNCHANGED <<outcome, types_usage, types, interfaces, input, ndecls>>
       ELSE Stop(Aborted(EArg("ImportError", "InvalidInputSource")))

\* mod.rs 65-66, `import?`: a document the interfaces section imports cannot
\* be read
InterfacesImportFails ==
    /\ phase = "interfaces"
    /\ Stop(Aborted(EArg("ImportError", "IOError")))

\* mod.rs 66 with InterfacesParser::parse 20-39 and from_file/from_hash: the
\* next document the interfaces section imports
InterfacesBeginDocument(shape) ==
    /\ phase = "interfaces"
    /\ CASE shape = "declarations" ->
              /\ level' = "document"
              /\ UNCHANGED <<phase, outcome, src_i, types_usage, types, interfaces,
                             input, src_keys, ndecls>>
         [] shape = "no_declarations" -> Stop(Panicked)
         [] shape = "other" ->
              Stop(Aborted(EArg("ImportFailure", "InvalidInputSource")))

\* InterfacesParser::parse 36-54: the next source the current document imports
InterfacesBeginImported(source) ==
    /\ phase = "interfaces"
    /\ level # "none"
    /\ CASE source \in {"declarations", "list"} ->
              /\ level' = IF source = "list" THEN "imported_list" ELSE "imported"
              /\ UNCHANGED <<phase, outcome, src_i, types_usage, types, interfaces,
                             input, src_keys, ndecls>>
         [] source \in {"no_declarations", "other"} -> Stop(Panicked)
         [] source = "failed" ->
              /\ ndecls < MaxDecls
              /\ ndecls' = ndecls + 1
              /\ interfaces' = Append(interfaces, Err(EArg("ImportFailure", "IOError")))
              /\ level' = "imported"
              /\ UNCHANGED <<phase, outcome, src_i, types_usage, types, input, src_keys>>

\* InterfacesParser::parse 46-47: the result r of the parser is pushed; a
\* panic ends the run
PushInterface(item, r) ==
    IF r.st = "panic"
    THEN Stop(Panicked)
    ELSE /\ types_usage' = r.tu
         /\ interfaces' = Append(interfaces, Stored(r))
         /\ input' = KV(YBad, item)
         /\ ndecls' = ndecls + 1
         /\ UNCHANGED <<phase, outcome, level, src_i, src_keys, types>>

\* One item of `raw` (from_file, read_decl, is_import) and one turn of the
\* loop over it (InterfacesParser::parse 40-51)
ParseInterfaceItem(item) ==
    /\ phase = "interfaces"
    /\ level # "none"
    /\ ndecls < MaxDecls
    /\ IF item.kind # "hash"
       THEN /\ interfaces' = IF level = "imported_list"
                             THEN Append(interfaces, Err(E("InvalidInterfaceDeclaration")))
                             ELSE interfaces
            /\ input' = KV(YBad, item)
            /\ ndecls' = ndecls + 1
            /\ UNCHANGED <<phase, outcome, level, src_i, src_keys, types, types_usage>>
       ELSE IF contains_key(item.v, t_import)
       THEN /\ input' = KV(YBad, item)
            /\ ndecls' = ndecls + 1
            /\ UNCHANGED <<phase, outcome, level, src_i, src_keys, types, types_usage,
                           interfaces>>
       ELSE PushInterface(item, InterfaceParser_parse(item.v, types, types_usage))

\* The orders in which a HashMap may hand out its keys
RECURSIVE Orders(_)
Orders(S) ==
    IF S = {} THEN {<<>>}
    ELSE UNION { { <<k>> \o o : o \in Orders(S \ {k}) } : k \in S }

\* The loop of mod.rs 72-88 leaving at the first unresolved name
RECURSIVE missing_declations_first(_, _)
missing_declations_first(tu, order) ==
    IF order = <<>> THEN <<>>
    ELSE IF tu[Head(order)].some THEN tu[Head(order)].list
    ELSE missing_declations_first(tu, Tail(order))

\* mod.rs 68-89: the sites pushed to missing_declations, the map being
\* iterated in `order`
RECURSIVE missing_declations(_, _)
missing_declations(tu, order) ==
    IF order = <<>> THEN <<>>
    ELSE (IF tu[Head(order)].some THEN tu[Head(order)].list ELSE <<>>)
         \o missing_declations(tu, Tail(order))

\* mod.rs 73-86: the lines printed, as (type_name, site)
RECURSIVE printed_lines(_, _)
printed_lines(tu, order) ==
    IF order = <<>> THEN <<>>
    ELSE (IF tu[Head(order)].some
          THEN [k \in 1..Len(tu[Head(order)].list) |->
                   [type_name |-> Head(order), site |-> tu[Head(order)].list[k]]]
          ELSE <<>>)
         \o printed_lines(tu, Tail(order))

\* mod.rs 90-100: what parse() returns, missing being missing_declations
returned(missing, lines) ==
    IF missing # <<>>
    THEN [kind |-> "missing", err |-> E("MissingTypeDeclError"),
          list |-> missing, printed |-> lines]
    ELSE [kind |-> "schema", err |-> NoErr, list |-> <<>>, printed |-> <<>>]

\* mod.rs 68-100: the tracker is reconciled and parse() returns
Reconcile(order) ==
    /\ phase = "interfaces"
    /\ phase' = "done"
    /\ outcome' = returned(missing_declations(types_usage, order),
                           printed_lines(types_usage, order))
    /\ UNCHANGED <<level, src_i, types_usage, types, interfaces, input, src_keys, ndecls>>

Next ==
    \/ \E entry \in TypeEntries : PassRootTypeEntry(entry)
    \/ \E item \in InterfaceItems : PassRootInterfaceItem(item)
    \/ \E entry \in TypeEntries : PassChainedTypeEntry(entry)
    \/ TypesImportFails
    \/ \E is_hash \in BOOLEAN : TypesBeginDocument(is_hash)
    \/ \E source \in {"hash", "other", "failed"} : TypesBeginImported(source)
    \/ \E entry \in TypeEntries : ParseTypeEntry(entry)
    \/ \E is_hash \in BOOLEAN : EndTypes(is_hash)
    \/ InterfacesImportFails
    \/ \E shape \in {"declarations", "no_declarations", "other"} :
           InterfacesBeginDocument(shape)
    \/ \E source \in {"declarations", "list", "no_declarations", "other", "failed"} :
           InterfacesBeginImported(source)
    \/ \E item \in InterfaceItems : ParseInterfaceItem(item)
    \/ \E order \in Orders(DOMAIN types_usage) : Reconcile(order)

Spec == Init /\ [][Next]_vars

---------------------------------------------------------------------------
(* The interface parser on one declaration.  InterfaceParser::parse is     *)
(* applied to a declaration `input.value`, with `types` the results of the *)
(* types phase and `types_usage` the tracker that phase left.  The stored  *)
(* result becomes the one element of `interfaces`; a panic is `outcome`.   *)

e_path == <<"n", "/", "{", "i", "}">>
e_404 == <<"4", "0", "4">>

int_body == YHash(<<KV(YStr(px), YStr(t_int))>>)

Methods == { YStr(t_get), YStr(t_post), YStr(t_put), YStr(t_delete), YStr(t_head),
             YStr(t_patch), YStr(e_news), YInt(1) }

Queries == { <<>>,
             <<KV(YStr(t_query), int_body)>>,
             <<KV(YStr(t_query), YHash(<<KV(YStr(px), YStr(nC))>>))>>,
             <<KV(YStr(t_query), YHash(<<KV(YStr(px), YStr(t_query))>>))>> }

Bodies == { <<>>,
            <<KV(YStr(t_body), YHash(<<KV(YStr(px), YStr(t_str)), KV(YStr(py), YStr(nC))>>))>> }

Responses ==
    { <<>>,
      <<KV(YStr(t_response), YStr(nA))>>,
      <<KV(YStr(t_response), YStr(nC))>>,
      <<KV(YStr(t_response), YHash(<<KV(YStr(px), YStr(nB)), KV(YStr(py), YStr(t_int))>>))>>,
      <<KV(YStr(t_response), YHash(<<KV(YInt(200), int_body)>>))>>,
      <<KV(YStr(t_response), YHash(<<KV(YInt(200), int_body), KV(YStr(e_4xx), YStr(nA))>>))>>,
      <<KV(YStr(t_response), YHash(<<KV(YStr(e_404), YStr(nC))>>))>>,
      <<KV(YStr(t_response), YHash(<<KV(YStr(e_4xx), YHash(<<KV(YStr(px), YStr(nC))>>))>>))>>,
      <<KV(YStr(t_response), YInt(5))>> }

\* Keys of a response mapping that are neither three digits nor Nxx
e_4 == <<"4">>
e_4ab == <<"4", "a", "b">>
e_99999 == <<"9", "9", "9", "9", "9">>
e_0404 == <<"0", "4", "0", "4">>
e_foo == <<"f", "o", "o">>

OddCodes == { e_4, e_4ab, e_99999, e_0404, e_foo }

OddResponses ==
    { <<KV(YStr(t_response), YHash(<<KV(YStr(e_404), int_body), KV(YStr(c), int_body)>>))>> :
          c \in OddCodes }
    \cup { <<KV(YStr(t_response), YHash(<<KV(YStr(c), int_body)>>))>> : c \in OddCodes }

\* Declarations without a path or a method, or with one that is no string
OddDeclarations ==
    { YHash(<<KV(YStr(t_method), YStr(t_get))>>),
      YHash(<<KV(YStr(t_path), YInt(1)), KV(YStr(t_method), YStr(t_get))>>),
      YHash(<<KV(YStr(t_path), YStr(e_path))>>),
      YHash(<<KV(YStr(t_path), YStr(e_path)), KV(YStr(t_query), int_body)>>),
      YHash(<<>>) }

Declarations ==
    { YHash(<<KV(YStr(t_path), YStr(e_path)), KV(YStr(t_method), m)>> \o q \o b \o r) :
          m \in Methods, q \in Queries, b \in Bodies, r \in Responses }
    \cup { YHash(<<KV(YStr(t_path), YStr(e_path)), KV(YStr(t_method), YStr(t_get))>> \o r) :
             r \in OddResponses }
    \cup OddDeclarations

int_property == PropertyDecl(px, Ok(DataTypeDecl(Primitive("Int"), TRUE)))
str_property == PropertyDecl(py, Ok(DataTypeDecl(Primitive("Str"), TRUE)))
C_property == PropertyDecl(px, Ok(DataTypeDecl(Object(nC), TRUE)))

\* What a types phase can leave: its results and its tracker
TypesPhaseResults ==
    { [types |-> <<>>, types_usage |-> EmptyUsage],
      [types |-> <<Ok(TypeDecl(nA, <<int_property>>))>>,
       types_usage |-> insert(EmptyUsage, nA, None)],
      [types |-> <<Err(E("UnsupportedKeyType")),
                   Ok(TypeDecl(nA, <<int_property>>)),
                   Ok(TypeDecl(nA, <<str_property>>))>>,
       types_usage |-> insert(EmptyUsage, nA, None)],
      [types |-> <<Ok(TypeDecl(nB, <<C_property>>))>>,
       types_usage |-> insert(insert(EmptyUsage, nC, Some(<<InTypeDeclaration(0, 0)>>)),
                              nB, None)] }

InitInterface ==
    /\ phase = "interface"
    /\ level = "none"
    /\ src_i = 0
    /\ src_keys = {}
    /\ ndecls = 0
    /\ outcome = Running
    /\ interfaces = <<>>
    /\ \E item \in Declarations : input = KV(YBad, item)
    /\ \E t \in TypesPhaseResults : types = t.types /\ types_usage = t.types_usage

\* InterfacesParser::parse 40-47 on the result r of the parser
StoreInterface(r) ==
    /\ phase' = "interface_done"
    /\ types_usage' = r.tu
    /\ interfaces' = IF r.st = "panic" THEN <<>> ELSE <<Stored(r)>>
    /\ outcome' = IF r.st = "panic" THEN Panicked ELSE outcome
    /\ UNCHANGED <<level, src_i, src_keys, ndecls, input, types>>

ParseInterface ==
    /\ phase = "interface"
    /\ StoreInterface(InterfaceParser_parse(input.value.v, types, types_usage))

NextInterface == ParseInterface

SpecInterface == InitInterface /\ [][NextInterface]_vars

---------------------------------------------------------------------------
(* get_params on one path: `input.value` is the path, `outcome` becomes    *)
(* the Result get_params returns.                                          *)

MaxPathLen == 5

PathChars == {"{", "}", "a", "/"}

RECURSIVE Paths(_)
Paths(n) ==
    IF n = 0 THEN {<<>>}
    ELSE Paths(n - 1) \cup { Append(p, c) : p \in Paths(n - 1), c \in PathChars }

InitPath ==
    /\ phase = "path"
    /\ level = "none"
    /\ src_i = 0
    /\ src_keys = {}
    /\ ndecls = 0
    /\ outcome = Running
    /\ interfaces = <<>>
    /\ types = <<>>
    /\ types_usage = EmptyUsage
    /\ \E path \in Paths(MaxPathLen) : input = KV(YBad, YStr(path))

ParsePath ==
    /\ phase = "path"
    /\ phase' = "path_done"
    /\ outcome' = get_params(input.value.v)
    /\ UNCHANGED <<level, src_i, src_keys, ndecls, input, types, types_usage, interfaces>>

NextPath == ParsePath

SpecPath == InitPath /\ [][NextPath]_vars

---------------------------------------------------------------------------
(* The type parser on one declaration.  TypeParser::parse is applied to    *)
(* the entry `input` of a source, key and body, as the turn of             *)
(* parse_composed_source does (types.rs 51-60), with `types_usage` the     *)
(* tracker the entries before it left.  The stored result becomes the one  *)
(* element of `types`; a panic is `outcome`.                               *)

MaxDepth == 2
MaxProps == 2

\* Type expressions built by the grammar
\*   expr ::= name ('[' expr (', ' expr)* ']')?
\* as trees: a name, array[e], dict[key, e]
Leafs == {t_int, t_str, nA}
DictKeys == {t_int, t_str}

NameShape(n) == [k |-> "name", n |-> n]
ArrayShape(e) == [k |-> "array", e |-> e]
DictShape(key, e) == [k |-> "dict", key |-> key, e |-> e]

RECURSIVE Shapes(_)
Shapes(d) ==
    IF d = 0
    THEN { NameShape(n) : n \in Leafs }
    ELSE Shapes(d - 1)
         \cup { ArrayShape(e) : e \in Shapes(d - 1) }
         \cup { DictShape(key, e) : key \in DictKeys, e \in Shapes(d - 1) }

\* The text of a tree
RECURSIVE Render(_)
Render(t) ==
    CASE t.k = "name" -> t.n
      [] t.k = "array" -> t_array \o <<"[">> \o Render(t.e) \o <<"]">>
      [] t.k = "dict" ->
            t_dict \o <<"[">> \o t.key \o <<",", " ">> \o Render(t.e) \o <<"]">>

\* What follows the name or the bracket group
Suffixes == { <<>>, <<"?">>, <<"?", " ">>, <<" ">>, <<" ", "?">> }

ShapedTexts ==
    { [t |-> t, s |-> s, text |-> Render(t) \o s] :
        t \in Shapes(MaxDepth), s \in Suffixes }

t_user == <<"u","s","e","r">>

BareNames ==
    { t_user, t_date_iso8601, t_url, t_timestamp, t_uuid,
      t_bool, t_double, t_array, t_dict }

e_array_opt == t_array \o <<"?">>
e_array_none == t_array \o <<"[", "]">>
e_array_two == t_array \o <<"[">> \o t_int \o <<",", " ">> \o t_str \o <<"]">>
e_array_open == t_array \o <<"[">> \o t_int
e_dict_none == t_dict \o <<"[", "]">>
e_dict_one == t_dict \o <<"[">> \o t_int \o <<"]">>
e_dict_three ==
    t_dict \o <<"[">> \o t_int \o <<",", " ">> \o t_str \o <<",", " ">>
           \o t_bool \o <<"]">>
e_dict_key == t_dict \o <<"[">> \o nA \o <<",", " ">> \o t_int \o <<"]">>
e_dict_open == t_dict \o <<"[">> \o t_int \o <<",">>
e_dict_no_key == t_dict \o <<"[", ",", " ">> \o t_int \o <<"]">>
e_dict_no_value == t_dict \o <<"[">> \o t_int \o <<",", " ", "]">>

OddExprs ==
    { e_array_opt, e_array_none, e_array_two, e_array_open,
      e_dict_none, e_dict_one, e_dict_three, e_dict_key, e_dict_open,
      e_dict_no_key, e_dict_no_value,
      <<>>, <<"?">>, <<"1", "a">> }

TypeExprs == { x.text : x \in ShapedTexts } \cup BareNames \cup OddExprs

\* The values of the properties of the bodies of several properties
PropertyValues ==
    { YStr(t_int), YStr(nA \o <<"?">>), YStr(t_array), YStr(e_dict_key),
      YHash(<<KV(YStr(py), YStr(nA))>>), YHash(<<>>), YInt(1) }

PropertyNames == <<px, py, <<"z">>, <<"w">>>>

RECURSIVE PropertyLists(_)
PropertyLists(n) ==
    IF n = 0 THEN { <<>> }
    ELSE PropertyLists(n - 1)
         \cup { Append(b, KV(YStr(PropertyNames[Len(b) + 1]), v)) :
                  b \in { c \in PropertyLists(n - 1) : Len(c) = n - 1 },
                  v \in PropertyValues }

TypeDeclarations ==
    { <<KV(YStr(px), YStr(e))>> : e \in TypeExprs } \cup PropertyLists(MaxProps)

TrackersBefore ==
    { EmptyUsage,
      insert(EmptyUsage, nA, None),
      insert(EmptyUsage, nA, Some(<<InPayload(0, 0)>>)) }

InitType ==
    /\ phase = "type"
    /\ level = "none"
    /\ src_i = 0
    /\ src_keys = {}
    /\ ndecls = 0
    /\ outcome = Running
    /\ interfaces = <<>>
    /\ types = <<>>
    /\ \E body \in TypeDeclarations : input = KV(YStr(nB), YHash(body))
    /\ types_usage \in TrackersBefore

\* TypesParser::parse_composed_source 59-60 on the result r of the parser
StoreType(r) ==
    /\ phase' = "type_done"
    /\ types_usage' = r.tu
    /\ types' = IF r.st = "panic" THEN <<>> ELSE <<Stored(r)>>
    /\ outcome' = IF r.st = "panic" THEN Panicked ELSE outcome
    /\ UNCHANGED <<level, src_i, src_keys, ndecls, input, interfaces>>

ParseType ==
    /\ phase = "type"
    /\ StoreType(TypeParser_parse(input.key.v, input.value.v, types_usage, SrcType(0)))

\* Display for Primitive, DataType and DataTypeDecl (schema.rs 146-194).
\* A type expression never gives an ObjectDecl, so the arm of line 172 is
\* not reached from the result of string_data_type_decl.
Primitive_fmt(p) ==
    CASE p = "Int" -> t_int
      [] p = "Double" -> t_double
      [] p = "Bool" -> t_bool
      [] p = "Str" -> t_str

RECURSIVE DataType_fmt(_)
DataType_fmt(data_type) ==
    CASE data_type.kind = "Primitive" -> Primitive_fmt(data_type.p)
      [] data_type.kind = "Array" ->
            t_array \o <<"[">> \o DataType_fmt(data_type.elem) \o <<"]">>
      [] data_type.kind = "Dict" ->
            t_dict \o <<"{", " ">> \o Primitive_fmt(data_type.key) \o <<":", " ">>
                   \o DataType_fmt(data_type.value) \o <<" ", "}">>
      [] data_type.kind = "Object" -> data_type.name

DataTypeDecl_fmt(d) ==
    IF d.is_required
    THEN DataType_fmt(d.data_type)
    ELSE DataType_fmt(d.data_type) \o <<"?">>

\* The declaration parsed from a type expression is rendered to text and
\* the text is parsed as the type expression of the same property; the
\* second result is stored after the first, the text read becomes `input`
ReparseType ==
    /\ phase = "type_done"
    /\ outcome.kind # "panic"
    /\ Len(input.value.v) = 1
    /\ input.value.v[1].value.kind = "str"
    /\ types[1].ok
    /\ types[1].val.property_decls[1].data_type_decl.ok
    /\ LET text == DataTypeDecl_fmt(types[1].val.property_decls[1].data_type_decl.val)
           r == TypeParser_parse(input.key.v, <<KV(input.value.v[1].key, YStr(text))>>,
                                 types_usage, SrcType(0))
       IN  /\ phase' = "type_again"
           /\ input' = KV(input.key, YHash(<<KV(input.value.v[1].key, YStr(text))>>))
           /\ types_usage' = r.tu
           /\ types' = IF r.st = "panic" THEN types ELSE Append(types, Stored(r))
           /\ outcome' = IF r.st = "panic" THEN Panicked ELSE outcome
           /\ UNCHANGED <<level, src_i, src_keys, ndecls, interfaces>>

NextType == ParseType \/ ReparseType

SpecType == InitType /\ [][NextType]_vars

---------------------------------------------------------------------------
(* The import resolver on one node: src/src/parser/imports.rs.  detect is  *)
(* applied to the node `input.value`; `outcome` becomes what it returns.   *)
(* The files are those of Disk: a path that is not on the disk cannot be   *)
(* read, a file may hold text that is not YAML, no document, one document  *)
(* or several.                                                             *)

MaxImports == 2

parent_path == <<"d">>
f_a == <<"a">>
f_b == <<"b">>
f_empty == <<"e">>
f_text == <<"p">>
f_missing == <<"m">>

doc_a == YHash(<<KV(YStr(nA), YHash(<<KV(YStr(px), YStr(t_int))>>))>>)
doc_b == YHash(<<KV(YStr(nB), YHash(<<KV(YStr(px), YStr(nA))>>))>>)

\* loads = FALSE: YamlLoader::load_from_str fails on the contents
Disk ==
    [ p \in { parent_path \o <<"/">> \o f : f \in {f_a, f_b, f_empty, f_text} } |->
        CASE p = parent_path \o <<"/">> \o f_a -> [loads |-> TRUE, docs |-> <<doc_a>>]
          [] p = parent_path \o <<"/">> \o f_b -> [loads |-> TRUE, docs |-> <<doc_b, YStr(e_news)>>]
          [] p = parent_path \o <<"/">> \o f_empty -> [loads |-> TRUE, docs |-> <<>>]
          [] OTHER -> [loads |-> FALSE, docs |-> <<>>] ]

\* utils.rs 40-46; ReadError holds the io error (Left) or the scan error (Right)
read_yaml(file_path) ==
    IF file_path \notin DOMAIN Disk
    THEN Err(EArg("ReadError", "Left"))
    ELSE IF ~Disk[file_path].loads
    THEN Err(EArg("ReadError", "Right"))
    ELSE Ok(Disk[file_path].docs)

\* detect 27-32 and 39-44: found_imports after the push for the read
\* result r; imported_yaml[0] of a file without a document panics
push_import(found_imports, r) ==
    IF r.ok
    THEN IF Len(r.val) = 0
         THEN [st |-> "panic", val |-> <<>>, err |-> NoErr]
         ELSE [st |-> "ok", val |-> Append(found_imports, Ok(r.val[1])), err |-> NoErr]
    ELSE [st |-> "ok", val |-> Append(found_imports, Err(EArg("IOError", r.err))),
          err |-> NoErr]

\* The for loop of detect 35-48 from element k on, r being found_imports
\* after the turns before it
RECURSIVE detect_loop(_, _, _, _)
detect_loop(file_paths, parent, k, r) ==
    IF r.st = "panic" \/ k > Len(file_paths)
    THEN r
    ELSE IF file_paths[k].kind = "str"
    THEN detect_loop(file_paths, parent, k + 1,
                     push_import(r.val, read_yaml(parent \o <<"/">> \o file_paths[k].v)))
    ELSE detect_loop(file_paths, parent, k + 1,
                     [st |-> "ok", val |-> Append(r.val, Err(E("InvalidImportValue"))),
                      err |-> NoErr])

\* detect 24-52 on the value of `_import`
detect_imports(value, parent) ==
    CASE value.kind = "str" -> push_import(<<>>, read_yaml(parent \o <<"/">> \o value.v))
      [] value.kind = "array" ->
            detect_loop(value.v, parent, 1, [st |-> "ok", val |-> <<>>, err |-> NoErr])
      [] OTHER -> [st |-> "ok", val |-> <<Err(E("InvalidImportValue"))>>, err |-> NoErr]

\* [st, val, err]: st = "ok" with the outcomes, "err" or "panic"
detect(source, parent) ==
    IF source.kind # "hash"
    THEN [st |-> "err", val |-> <<>>, err |-> E("InvalidInputSource")]
    ELSE IF ~contains_key(source.v, t_import)
    THEN [st |-> "ok", val |-> <<>>, err |-> NoErr]
    ELSE detect_imports(hash_index(source.v, t_import), parent)

ImportValues ==
    { YStr(f_a), YStr(f_b), YStr(f_empty), YStr(f_text), YStr(f_missing), YInt(1) }

RECURSIVE ImportLists(_)
ImportLists(n) ==
    IF n = 0 THEN { <<>> }
    ELSE ImportLists(n - 1)
         \cup { Append(l, v) : l \in { m \in ImportLists(n - 1) : Len(m) = n - 1 },
                               v \in ImportValues }

ImportSources ==
    { YHash(<<>>), doc_a, YStr(f_a), YArray(<<YStr(f_a)>>), YBad,
      YHash(<<KV(YStr(t_import), YHash(<<>>))>>) }
    \cup { YHash(<<KV(YStr(t_import), v)>>) : v \in ImportValues }
    \cup { YHash(<<KV(YStr(nA), YHash(<<KV(YStr(px), YStr(t_int))>>)),
                   KV(YStr(t_import), YArray(l))>>) : l \in ImportLists(MaxImports) }
    \cup { YHash(<<KV(YStr(t_import), YArray(l))>>) : l \in ImportLists(MaxImports) }

InitImports ==
    /\ phase = "imports"
    /\ level = "none"
    /\ src_i = 0
    /\ src_keys = {}
    /\ ndecls = 0
    /\ outcome = Running
    /\ interfaces = <<>>
    /\ types = <<>>
    /\ types_usage = EmptyUsage
    /\ \E source \in ImportSources : input = KV(YBad, source)

DetectImports ==
    /\ phase = "imports"
    /\ phase' = "imports_done"
    /\ outcome' = detect(input.value, parent_path)
    /\ UNCHANGED <<level, src_i, src_keys, ndecls, input, types, types_usage, interfaces>>

NextImports == DetectImports

SpecImports == InitImports /\ [][NextImports]_vars

---------------------------------------------------------------------------
(* The type usage tracker on its own: handle_if_unknown_type (types.rs     *)
(* 204-222) and the insert of TypeParser::parse (types.rs 92) are applied  *)
(* to `types_usage`.  `input.key` is the name of the last operation,       *)
(* `level` its kind (the kind of the source of a reference, or             *)
(* "declaration"), `src_i` the index the source carries, `ndecls` the      *)
(* number of operations so far.                                            *)

MaxRecords == 3

TrackerNames == {nA, nB}

TrackerSources == { SrcType(0), SrcType(1), SrcInterfaceInput(0) }

TrackerEntries == { None, Some(<<InTypeDeclaration(1, 0)>>) }

InitTracker ==
    /\ phase = "tracker"
    /\ level = "none"
    /\ src_i = 0
    /\ src_keys = {}
    /\ ndecls = 0
    /\ outcome = Running
    /\ interfaces = <<>>
    /\ types = <<>>
    /\ input = NoInput
    /\ \E names \in SUBSET TrackerNames : types_usage \in [names -> TrackerEntries]

\* TypeParser::handle_if_unknown_type for a reference to type_name met in
\* `source`
HandleUnknownType(type_name, source) ==
    /\ phase = "tracker"
    /\ ndecls < MaxRecords
    /\ types_usage' = handle_if_unknown_type(types_usage, type_name, source)
    /\ input' = KV(YStr(type_name), YBad)
    /\ level' = source.kind
    /\ src_i' = source.i
    /\ ndecls' = ndecls + 1
    /\ UNCHANGED <<phase, outcome, src_keys, types, interfaces>>

\* The insert of TypeParser::parse 92 for the declaration of `key`
InsertDeclared(key) ==
    /\ phase = "tracker"
    /\ ndecls < MaxRecords
    /\ types_usage' = insert(types_usage, key, None)
    /\ input' = KV(YStr(key), YBad)
    /\ level' = "declaration"
    /\ src_i' = 0
    /\ ndecls' = ndecls + 1
    /\ UNCHANGED <<phase, outcome, src_keys, types, interfaces>>

NextTracker ==
    \/ \E type_name \in TrackerNames, source \in TrackerSources :
           HandleUnknownType(type_name, source)
    \/ \E key \in TrackerNames : InsertDeclared(key)

SpecTracker == InitTracker /\ [][NextTracker]_vars

---------------------------------------------------------------------------
(* Properties of a run (Spec) *)

\* The run went through the reconciliation of mod.rs 68-100
Reconciled == phase = "done" /\ outcome.kind \in {"schema", "missing"}

Unresolved == { n \in DOMAIN types_usage : types_usage[n].some }

CountIn(seq, x) == Cardinality({ i \in DOMAIN seq : seq[i] = x })

RECURSIVE TotalSites(_)
TotalSites(S) ==
    IF S = {} THEN 0
    ELSE LET n == CHOOSE n \in S : TRUE
         IN  Len(types_usage[n].list) + TotalSites(S \ {n})

DeclaredAt(i, n) == types[i].ok /\ types[i].val.name = n

\* The number of references to the name n in a data type, in a declaration
RECURSIVE RefsInType(_, _)
RECURSIVE RefsInDecl(_, _, _)
RefsInType(dt, n) ==
    CASE dt.kind = "Object" -> IF dt.name = n THEN 1 ELSE 0
      [] dt.kind = "Array" -> RefsInType(dt.elem, n)
      [] dt.kind = "Dict" -> RefsInType(dt.value, n)
      [] dt.kind = "ObjectDecl" -> RefsInDecl(dt.decl.property_decls, 1, n)
      [] OTHER -> 0

RefsInDecl(property_decls, k, n) ==
    IF k > Len(property_decls) THEN 0
    ELSE (IF property_decls[k].data_type_decl.ok
          THEN RefsInType(property_decls[k].data_type_decl.val.data_type, n)
          ELSE 0)
         + RefsInDecl(property_decls, k + 1, n)

RECURSIVE RefsInTypes(_, _)
RefsInTypes(i, n) ==
    IF i > Len(types) THEN 0
    ELSE (IF types[i].ok THEN RefsInDecl(types[i].val.property_decls, 1, n) ELSE 0)
         + RefsInTypes(i + 1, n)

\* C1: a name that has a successfully parsed top-level declaration is marked
\* declared (None) in the tracker from then on, whether it was referenced
\* before the declaration or after it, and the aggregate error of the run
\* never holds a line for it.
C1_DeclaredLaterResolves ==
    \A i \in DOMAIN types :
        types[i].ok =>
            /\ types[i].val.name \in DOMAIN types_usage
            /\ types_usage[types[i].val.name] = None
            /\ \A k \in DOMAIN outcome.printed :
                   outcome.printed[k].type_name # types[i].val.name

\* C1 happens: B refers to A before any declaration of A, A is declared
\* later, and the run returns the Schema
C1_Witness ==
    /\ Reconciled
    /\ outcome.kind = "schema"
    /\ Len(types) = 2
    /\ DeclaredAt(1, nB)
    /\ RefsInDecl(types[1].val.property_decls, 1, nA) = 1
    /\ types[1].val.property_decls[1].data_type_decl = Ok(DataTypeDecl(Object(nA), TRUE))
    /\ DeclaredAt(2, nA)

\* C2: parse returns only from the reconciliation or by an abort; it returns
\* the Schema only if no tracker entry holds sites, and otherwise the one
\* aggregate error, which holds every recorded (type_name, site) pair of
\* every unresolved name, as often as it was recorded, and nothing else.
C2_AggregateError ==
    /\ outcome.kind \in {"schema", "missing"} => phase = "done"
    /\ Reconciled =>
          /\ outcome.kind = "schema" <=> Unresolved = {}
          /\ Len(outcome.list) = TotalSites(Unresolved)
          /\ Len(outcome.printed) = TotalSites(Unresolved)
          /\ \A n \in Unresolved : \A j \in DOMAIN types_usage[n].list :
                 /\ CountIn(outcome.printed,
                            [type_name |-> n, site |-> types_usage[n].list[j]])
                        = CountIn(types_usage[n].list, types_usage[n].list[j])
                 /\ CountIn(outcome.list, types_usage[n].list[j])
                        >= CountIn(types_usage[n].list, types_usage[n].list[j])

\* C2 happens: two names are unresolved at the end and the error holds both
C2_Witness ==
    /\ Reconciled
    /\ outcome.kind = "missing"
    /\ Cardinality(Unresolved) >= 2
    /\ Len(outcome.list) >= 2

\* C3: when every type of the run parsed and a name that no type declares is
\* referenced in type bodies, the run ends with the aggregate error and the
\* error holds one in-type-declaration entry for each of these references.
C3_UndeclaredIsReported ==
    (Reconciled /\ \A i \in DOMAIN types : types[i].ok) =>
        \A n \in {nA, nB, nC} :
            (RefsInTypes(1, n) > 0 /\ \A i \in DOMAIN types : ~DeclaredAt(i, n)) =>
                /\ outcome.kind = "missing"
                /\ Cardinality({ k \in DOMAIN outcome.printed :
                                    /\ outcome.printed[k].type_name = n
                                    /\ outcome.printed[k].site.kind = "InTypeDeclaration" })
                       = RefsInTypes(1, n)

---------------------------------------------------------------------------
(* Properties of the interface parser (SpecInterface) *)

Parsed == phase = "interface_done"

decl == input.value.v
has(name) == contains_key(decl, name)
method_node == IF has(t_method) THEN hash_index(decl, t_method) ELSE YBad

\* The declaration has a path that is a string
PathGiven == has(t_path) /\ hash_index(decl, t_path).kind = "str"

GetOrHead == method_node \in {YStr(t_get), YStr(t_head)}
PostPutPatch == method_node \in {YStr(t_post), YStr(t_put), YStr(t_patch)}
IsDelete == method_node = YStr(t_delete)

\* The path is a string, the method is valid and the declaration holds no
\* key the method forbids
PayloadAccepted ==
    /\ PathGiven
    /\ \/ GetOrHead /\ ~has(t_body)
       \/ PostPutPatch /\ ~has(t_query)
       \/ IsDelete /\ ~has(t_query) /\ ~has(t_body)

\* The tracker the types phase left, before the declaration was parsed
TrackerBefore ==
    (CHOOSE t \in TypesPhaseResults : t.types = types).types_usage

TypeNames == {nA, nB, nC}

\* How often a property list names the type n as the type of a property
PropertyRefs(pairs, n) ==
    Cardinality({ k \in 1..Len(pairs) : pairs[k].value = YStr(n) })

CodeKey(node) ==
    \/ node.kind = "int"
    \/ node.kind = "str" /\ node.v # <<>> /\ Head(node.v) \in Digits

CustomCodes(pairs) == \E k \in 1..Len(pairs) : CodeKey(pairs[k].key)

RECURSIVE ListsUnderCodes(_, _, _)
ListsUnderCodes(pairs, k, n) ==
    IF k > Len(pairs) THEN 0
    ELSE (IF pairs[k].value.kind = "hash" THEN PropertyRefs(pairs[k].value.v, n) ELSE 0)
         + ListsUnderCodes(pairs, k + 1, n)

\* References to n in the property list of the payload the method permits
PayloadRefs(n) ==
    IF GetOrHead /\ has(t_query) THEN PropertyRefs(hash_index(decl, t_query).v, n)
    ELSE IF PostPutPatch /\ has(t_body) THEN PropertyRefs(hash_index(decl, t_body).v, n)
    ELSE 0

\* References to n in the property lists of the response
ResponseRefs(n) ==
    IF ~has(t_response) \/ hash_index(decl, t_response).kind # "hash" THEN 0
    ELSE IF CustomCodes(hash_index(decl, t_response).v)
    THEN ListsUnderCodes(hash_index(decl, t_response).v, 1, n)
    ELSE PropertyRefs(hash_index(decl, t_response).v, n)

\* The response, or the value of one of its status codes, is the bare name n
BareResponse(n) ==
    /\ has(t_response)
    /\ \/ hash_index(decl, t_response) = YStr(n)
       \/ /\ hash_index(decl, t_response).kind = "hash"
          /\ CustomCodes(hash_index(decl, t_response).v)
          /\ \E k \in 1..Len(hash_index(decl, t_response).v) :
                 hash_index(decl, t_response).v[k].value = YStr(n)

MarkedDeclared(tu, n) == n \in DOMAIN tu /\ ~tu[n].some

SitesOf(tu, n) == IF n \in DOMAIN tu THEN tu[n].list ELSE <<>>

IsResponseSite(site) == site.kind = "InResponse"

C5_ForbiddenPayloadKey ==
    Parsed =>
        /\ (GetOrHead /\ has(t_body)) => interfaces = <<Err(E("BodyNotAllowed"))>>
        /\ (PostPutPatch /\ has(t_query)) => interfaces = <<Err(E("QueryNotAllowed"))>>

\* C5 happens: a get with both keys was rejected for its body
C5_Witness ==
    /\ Parsed
    /\ method_node = YStr(t_get)
    /\ has(t_body) /\ has(t_query)
    /\ interfaces = <<Err(E("BodyNotAllowed"))>>

\* C6: for delete, a `query` key fails with QueryNotAllowed, also when `body`
\* is present, and a `body` key alone fails with BodyNotAllowed; the result
\* is that one error.
C6_DeleteTakesNoPayload ==
    (Parsed /\ IsDelete) =>
        /\ has(t_query) => interfaces = <<Err(E("QueryNotAllowed"))>>
        /\ (has(t_body) /\ ~has(t_query)) => interfaces = <<Err(E("BodyNotAllowed"))>>

\* C6 happens: a delete with both keys was rejected for its query
C6_Witness ==
    /\ Parsed
    /\ IsDelete
    /\ has(t_body) /\ has(t_query)
    /\ interfaces = <<Err(E("QueryNotAllowed"))>>

\* The names of the properties are the keys of the mapping, in its order
SameProperties(props, pairs) ==
    /\ Len(props) = Len(pairs)
    /\ \A k \in 1..Len(pairs) : YStr(props[k].name) = pairs[k].key

\* C7: a parsed interface has a payload legal for its method: for get and
\* head None or Query of the properties of `query`, for post, put and patch
\* None or Body of the properties of `body`, for delete None; it is None
\* exactly when the permitted key is absent.
C7_PayloadLegalForMethod ==
    (Parsed /\ interfaces # <<>> /\ interfaces[1].ok) =>
        /\ PayloadAccepted
        /\ interfaces[1].val.spec.method
              = CASE method_node = YStr(t_get) -> "Get"
                  [] method_node = YStr(t_head) -> "Head"
                  [] method_node = YStr(t_post) -> "Post"
                  [] method_node = YStr(t_put) -> "Put"
                  [] method_node = YStr(t_patch) -> "Patch"
                  [] method_node = YStr(t_delete) -> "Delete"
        /\ GetOrHead =>
              IF has(t_query)
              THEN /\ interfaces[1].val.spec.payload.kind = "Query"
                   /\ SameProperties(interfaces[1].val.spec.payload.props,
                                     hash_index(decl, t_query).v)
              ELSE interfaces[1].val.spec.payload = NoPayload
        /\ PostPutPatch =>
              IF has(t_body)
              THEN /\ interfaces[1].val.spec.payload.kind = "Body"
                   /\ SameProperties(interfaces[1].val.spec.payload.props,
                                     hash_index(decl, t_body).v)
              ELSE interfaces[1].val.spec.payload = NoPayload
        /\ IsDelete => interfaces[1].val.spec.payload = NoPayload

\* C7 happens: a head with a query parsed to a Query payload
C7_Witness ==
    /\ Parsed
    /\ method_node = YStr(t_head)
    /\ has(t_query)
    /\ interfaces # <<>> /\ interfaces[1].ok
    /\ interfaces[1].val.spec.payload.kind = "Query"

\* C8: with the payload accepted, a `response` that is a bare string fails
\* with TypeNotFound(name) when no parsed type has that name, and otherwise
\* gives exactly one response, under Fixed(200), with the name and the
\* properties of a parsed type of that name; without a `response` key the
\* responses are None.
C8_NamedResponse ==
    (Parsed /\ PayloadAccepted) =>
        /\ ~has(t_response) =>
              /\ interfaces # <<>> /\ interfaces[1].ok
              /\ interfaces[1].val.spec.responses = NoResponses
        /\ (has(t_response) /\ hash_index(decl, t_response).kind = "str") =>
              IF \E i \in DOMAIN types : DeclaredAt(i, hash_index(decl, t_response).v)
              THEN /\ interfaces # <<>> /\ interfaces[1].ok
                   /\ interfaces[1].val.spec.responses.some
                   /\ DOMAIN interfaces[1].val.spec.responses.map = {Fixed(200)}
                   /\ \E i \in DOMAIN types :
                          /\ DeclaredAt(i, hash_index(decl, t_response).v)
                          /\ interfaces[1].val.spec.responses.map[Fixed(200)]
                                = TypeDecl(hash_index(decl, t_response).v,
                                           types[i].val.property_decls)
              ELSE interfaces
                      = <<Err(EArg("TypeNotFound", hash_index(decl, t_response).v))>>

\* C8 happens: a response naming the declared type A, and one naming a type
\* that is not declared, were parsed
C8_Witness ==
    /\ Parsed
    /\ PayloadAccepted
    /\ has(t_response)
    /\ hash_index(decl, t_response) = YStr(nA)
    /\ types = <<Ok(TypeDecl(nA, <<int_property>>))>>
    /\ interfaces[1].ok
    /\ interfaces[1].val.spec.responses
          = SomeResponses([c \in {Fixed(200)} |-> TypeDecl(nA, <<int_property>>)])

\* The status code a key of a response mapping stands for
ThreeDigits(text) == Len(text) = 3 /\ \A k \in 1..3 : text[k] \in Digits

PrefixPattern(text) ==
    Len(text) = 3 /\ text[1] \in Digits /\ text[2] = "x" /\ text[3] = "x"

IsCodePattern(node) ==
    \/ node.kind = "int" /\ node.v \in 100..999
    \/ node.kind = "str" /\ (ThreeDigits(node.v) \/ PrefixPattern(node.v))

CodeOf(node) ==
    IF node.kind = "int" THEN Fixed(node.v)
    ELSE IF ThreeDigits(node.v)
    THEN Fixed(100 * DigitVal(node.v[1]) + 10 * DigitVal(node.v[2]) + DigitVal(node.v[3]))
    ELSE Prefix(DigitVal(node.v[1]))

\* The value under a status code can be parsed: a property list, or the
\* name of a parsed type
ResponseValueParses(node) ==
    \/ node.kind = "hash"
    \/ node.kind = "str" /\ \E i \in DOMAIN types : DeclaredAt(i, node.v)

\* C9: a response mapping with a status-code key, written as an integer or
\* as a string, gives one response per key, Fixed(n) for a 3-digit code n
\* and Prefix(N) for Nxx; a mapping without a numeric-leading key is the
\* property list of a single response under Fixed(200).
C9_ResponseCodes ==
    (/\ Parsed
     /\ PayloadAccepted
     /\ has(t_response)
     /\ hash_index(decl, t_response).kind = "hash") =>
        LET pairs == hash_index(decl, t_response).v
        IN  /\ (/\ \A k \in 1..Len(pairs) : IsCodePattern(pairs[k].key)
                /\ \A k \in 1..Len(pairs) : ResponseValueParses(pairs[k].value)) =>
                   /\ interfaces # <<>> /\ interfaces[1].ok
                   /\ interfaces[1].val.spec.responses.some
                   /\ DOMAIN interfaces[1].val.spec.responses.map
                         = { CodeOf(pairs[k].key) : k \in 1..Len(pairs) }
            /\ ~CustomCodes(pairs) =>
                   /\ interfaces # <<>> /\ interfaces[1].ok
                   /\ interfaces[1].val.spec.responses.some
                   /\ DOMAIN interfaces[1].val.spec.responses.map = {Fixed(200)}
                   /\ SameProperties(
                          interfaces[1].val.spec.responses.map[Fixed(200)].property_decls,
                          pairs)

---------------------------------------------------------------------------
(* Properties of get_params (SpecPath) *)

path == input.value.v

\* The index of the first `}` after index i
NextClose(p, i) ==
    CHOOSE j \in (i + 1)..Len(p) :
        p[j] = "}" /\ \A k \in (i + 1)..(j - 1) : p[k] # "}"

\* The texts between each `{` and the following `}`, from index i on
RECURSIVE Captures(_, _)
Captures(p, i) ==
    IF i > Len(p) THEN <<>>
    ELSE IF p[i] = "{" /\ \E j \in (i + 1)..Len(p) : p[j] = "}"
    THEN <<SubSeq(p, i + 1, NextClose(p, i) - 1)>> \o Captures(p, i + 1)
    ELSE Captures(p, i + 1)

HasEmptyCapture(p) == \E i \in 1..(Len(p) - 1) : p[i] = "{" /\ p[i + 1] = "}"

\* A `{` stands between a `{` and the following `}`
NestedCapture(p) ==
    \E i \in 1..Len(p) : \E j \in (i + 1)..Len(p) : \E k \in (j + 1)..Len(p) :
        /\ p[i] = "{" /\ p[j] = "{" /\ p[k] = "}"
        /\ \A m \in (i + 1)..(k - 1) : p[m] # "}"

---------------------------------------------------------------------------
(* Properties of the type parser on one declaration (SpecType) *)

TypeParsed == phase = "type_done"

\* The declaration has one property, whose value is a type expression
OneExpr ==
    /\ Len(input.value.v) = 1
    /\ input.value.v[1].value.kind = "str"

expr == input.value.v[1].value.v

\* The parse returned a TypeDecl
TypeReturned == TypeParsed /\ outcome.kind # "panic" /\ types[1].ok

\* The outcome stored for property k
OutcomeOf(k) == types[1].val.property_decls[k].data_type_decl

ExprParsed == TypeReturned /\ OneExpr /\ OutcomeOf(1).ok

\* The trees and suffixes the expression is the text of
ShapesOf(text) == { x \in ShapedTexts : x.text = text }

\* C11 (as stated): a parsed expression is optional only if its last
\* character is `?`; name? and name[...]? are optional, the same
\* expressions without the `?` are required.
C11_OptionalOnlyIfLastIsMark ==
    ExprParsed =>
        /\ ~OutcomeOf(1).val.is_required => expr[Len(expr)] = "?"
        /\ \A x \in ShapesOf(expr) :
              /\ x.s = <<"?">> => ~OutcomeOf(1).val.is_required
              /\ x.s = <<>> => OutcomeOf(1).val.is_required

\* C11 (amended): a parsed expression is optional exactly when the
\* character that follows its name, or its bracket group when it has one,
\* is `?`; whatever comes after that character has no effect.
C11_OptionalIffMarkFollows ==
    ExprParsed =>
        \A x \in ShapesOf(expr) :
            OutcomeOf(1).val.is_required <=> (x.s = <<>> \/ x.s[1] # "?")

C11_Witness ==
    /\ ExprParsed
    /\ expr = t_str \o <<"?", " ">>
    /\ OutcomeOf(1) = Ok(DataTypeDecl(Primitive("Str"), FALSE))


\* The DataType the grammar gives a tree: a primitive or a named reference
\* for a name, Array of the element, Dict of the key and the value
RECURSIVE Mirror(_)
Mirror(t) ==
    CASE t.k = "name" ->
            IF t.n = t_int THEN Primitive("Int")
            ELSE IF t.n = t_str THEN Primitive("Str")
            ELSE Object(t.n)
      [] t.k = "array" -> Array(Mirror(t.e))
      [] t.k = "dict" ->
            Dict(IF t.key = t_int THEN "Int" ELSE "Str", Mirror(t.e))

\* C12: the DataType parsed from a well-formed expression mirrors the
\* nesting of the expression to any depth, in array element and dict value
\* positions; a dict key is a primitive.
C12_MirrorsNesting ==
    (TypeParsed /\ OneExpr) =>
        \A x \in ShapesOf(expr) :
            x.s \in { <<>>, <<"?">> } =>
                /\ TypeReturned
                /\ OutcomeOf(1) = Ok(DataTypeDecl(Mirror(x.t), x.s = <<>>))


\* The expression is a bare name, with or without the `?`
Marked == expr # <<>> /\ expr[Len(expr)] = "?"
BareName == IF Marked THEN SubSeq(expr, 1, Len(expr) - 1) ELSE expr
IsBareName == OneExpr /\ BareName \in BareNames \cup Leafs

BuiltIns == { t_str, t_bool, t_int, t_double, t_array, t_dict }
StrAliases == { t_date_iso8601, t_url, t_uuid }
IntAliases == { t_timestamp }

\* The step that parses the declaration
ParsesType == phase = "type" /\ phase' = "type_done"

\* The tracker after the step holds, for name n, what a reference recorded
\* at the site leaves there
Recorded(n, site) ==
    /\ n \in DOMAIN types_usage'
    /\ types_usage'[n] =
          IF n \in DOMAIN types_usage
          THEN IF types_usage[n].some
               THEN Some(Append(types_usage[n].list, site))
               ELSE None
          ELSE Some(<<site>>)

\* C13 (as stated): every bare name other than str, bool, int, double,
\* array and dict resolves to a named reference carrying that name.
C13_BareNameIsReference ==
    (TypeParsed /\ IsBareName /\ BareName \notin BuiltIns) =>
        /\ TypeReturned
        /\ OutcomeOf(1) = Ok(DataTypeDecl(Object(BareName), ~Marked))

\* C13 (amended): date_iso8601, url and uuid resolve to the primitive Str
\* and timestamp to the primitive Int, and leave the tracker alone; every
\* other bare name that is not a built-in resolves to a named reference
\* carrying that name, and parsing it in a type body appends the site to
\* the name's tracker entry unless the entry marks the name declared.
C13_BareNameIsReferenceOrAlias ==
    [][(ParsesType /\ IsBareName /\ BareName \notin BuiltIns) =>
          /\ TypeReturned'
          /\ BareName \in StrAliases =>
                /\ OutcomeOf(1)' = Ok(DataTypeDecl(Primitive("Str"), ~Marked))
                /\ types_usage' = insert(types_usage, nB, None)
          /\ BareName \in IntAliases =>
                /\ OutcomeOf(1)' = Ok(DataTypeDecl(Primitive("Int"), ~Marked))
                /\ types_usage' = insert(types_usage, nB, None)
          /\ BareName \notin StrAliases \cup IntAliases =>
                /\ OutcomeOf(1)' = Ok(DataTypeDecl(Object(BareName), ~Marked))
                /\ Recorded(BareName, InTypeDeclaration(0, 0))
                /\ DOMAIN types_usage' = DOMAIN types_usage \cup {BareName, nB}
      ]_vars

C13_Witness ==
    /\ TypeReturned
    /\ IsBareName
    /\ BareName = nA
    /\ OutcomeOf(1) = Ok(DataTypeDecl(Object(nA), TRUE))
    /\ types_usage[nA] = Some(<<InPayload(0, 0), InTypeDeclaration(0, 0)>>)


\* The properties of the declaration
body == input.value.v

\* Expressions named array without exactly one subtype, or named dict
\* without exactly two
WrongArity ==
    { t_array, e_array_opt, e_array_none, e_array_two,
      t_dict, e_dict_none, e_dict_one, e_dict_three }

\* C14: a property whose expression is named array without exactly one
\* subtype, or dict without exactly two, holds a TypeDeclError, never an
\* Array or a Dict, and the parsing of the enclosing type continues.
C14_WrongArityIsError ==
    TypeParsed =>
        \A k \in 1..Len(body) :
            (body[k].value.kind = "str" /\ body[k].value.v \in WrongArity) =>
                /\ TypeReturned
                /\ Len(types[1].val.property_decls) = Len(body)
                /\ ~OutcomeOf(k).ok


\* The declaration was rendered and its text parsed again
Reparsed == phase = "type_again"

\* C15: an expression that parses to a DataTypeDecl d, rendered to its
\* Display text and parsed again, gives a DataTypeDecl equal to d.
C15_RoundTrip ==
    Reparsed =>
        /\ outcome.kind # "panic"
        /\ Len(types) = 2
        /\ types[2] = types[1]


\* The outcome of property k parsed on its own
Own(k) == make_data_type_decl(body[k].value, body[k].key.v, EmptyUsage, SrcType(0))

\* C16: a body of n string-keyed properties gives a TypeDecl of n
\* PropertyDecls in the order of the body; a property whose expression
\* fails holds an error, every other one the outcome it has on its own.
C16_PerPropertyOutcomes ==
    TypeParsed =>
        /\ TypeReturned
        /\ Len(types[1].val.property_decls) = Len(body)
        /\ \A k \in 1..Len(body) :
              /\ types[1].val.property_decls[k].name = body[k].key.v
              /\ IF Own(k).st = "ok"
                 THEN OutcomeOf(k) = Ok(Own(k).val)
                 ELSE ~OutcomeOf(k).ok


---------------------------------------------------------------------------
(* Properties of the import resolver (SpecImports) *)

Detected == phase = "imports_done"

source == input.value

HasImport ==
    source.kind = "hash" /\ \E i \in 1..Len(source.v) : source.v[i].key = YStr(t_import)

import_value ==
    source.v[CHOOSE i \in 1..Len(source.v) : source.v[i].key = YStr(t_import)].value

\* `_import` is a sequence of path strings
PathSequence ==
    /\ HasImport
    /\ import_value.kind = "array"
    /\ \A k \in 1..Len(import_value.v) : import_value.v[k].kind = "str"

\* The outcome of resolving one path: the fragment the file holds, or the
\* failure of reading or parsing the file
Resolves(file_name, o) ==
    LET file == parent_path \o <<"/">> \o file_name
    IN  IF file \in DOMAIN Disk /\ Disk[file].loads
        THEN o.ok /\ Len(Disk[file].docs) > 0 /\ o.val = Disk[file].docs[1]
        ELSE ~o.ok /\ o.err.tag = "IOError"

\* C17: a sequence of n path strings gives exactly n outcomes, the i-th
\* being the outcome of resolving the i-th path, a failure staying at its
\* position; a node without `_import` gives the empty sequence.
C17_OneOutcomePerPath ==
    Detected =>
        /\ PathSequence =>
              /\ outcome.st = "ok"
              /\ Len(outcome.val) = Len(import_value.v)
              /\ \A k \in 1..Len(import_value.v) :
                    Resolves(import_value.v[k].v, outcome.val[k])
        /\ (source.kind = "hash" /\ ~HasImport) =>
              outcome.st = "ok" /\ outcome.val = <<>>


---------------------------------------------------------------------------
(* Properties of a run (Spec): the order of the results *)

\* The entry read last is a type declaration, an interface declaration
TypeDeclarationRead ==
    /\ input.key.kind = "str"
    /\ input.key.v # t_import
    /\ input.value.kind = "hash"

InterfaceDeclarationRead ==
    /\ input.key = YBad
    /\ input.value.kind = "hash"
    /\ ~contains_key(input.value.v, t_import)

ImportFailed == Err(EArg("ImportFailure", "IOError"))

\* The result of the entry read last is in results, and nothing but the
\* failures of imports met since comes after it
LastReadIsLastParsed(results, named(_)) ==
    \E i \in 1..Len(results) :
        /\ results[i] # ImportFailed
        /\ results[i].ok => named(results[i].val)
        /\ \A j \in (i + 1)..Len(results) : results[j] = ImportFailed

NamesTypeRead(type_decl) == type_decl.name = input.key.v
NamesInterfaceRead(interface_decl) == TRUE

\* C18: in both phases the declarations are parsed, and appear in the
\* result sequence, in the order in which they are read: a document's own
\* body, then the fragments it imports in the order of `_import`; the
\* types and interfaces sections of the root document are documents in
\* that sense.
C18_ParsedInReadingOrder ==
    /\ TypeDeclarationRead => LastReadIsLastParsed(types, NamesTypeRead)
    /\ InterfaceDeclarationRead => LastReadIsLastParsed(interfaces, NamesInterfaceRead)


---------------------------------------------------------------------------
(* Properties of the tracker (SpecTracker) *)

\* The name and the site of the last operation
LastName == input.key.v
LastSite ==
    IF level = "Type" THEN InTypeDeclaration(src_i, 0) ELSE InPayload(src_i, 0)

\* C19: recording a reference to N at site s appends s to N's list, leaves
\* an entry marked declared as it is, and creates the entry [s] when N has
\* none; recording a declaration of N sets N's entry to declared; the
\* entries of the other names are unchanged by both.
C19_TrackerOperations ==
    [][ndecls' = ndecls + 1 =>
          /\ DOMAIN types_usage' = DOMAIN types_usage \cup {LastName'}
          /\ \A n \in DOMAIN types_usage \ {LastName'} :
                types_usage'[n] = types_usage[n]
          /\ level' = "declaration" => types_usage'[LastName'] = None
          /\ level' # "declaration" =>
                types_usage'[LastName'] =
                    IF LastName' \notin DOMAIN types_usage
                    THEN Some(<<LastSite'>>)
                    ELSE IF types_usage[LastName'].some
                    THEN Some(Append(types_usage[LastName'].list, LastSite'))
                    ELSE None
      ]_vars

C19_Witness ==
    /\ phase = "tracker"
    /\ level = "InterfaceInput"
    /\ LastName = nA
    /\ nB \in DOMAIN types_usage
    /\ types_usage[nB] = None
    /\ types_usage[nA] = Some(<<InTypeDeclaration(1, 0), InPayload(0, 0)>>)


---------------------------------------------------------------------------
(* Properties of a run (Spec): what marks a name declared *)

\* C20: a tracker entry is marked declared (None) only through the
\* successful parse of a top-level type declaration of that name; nested
\* records, query and body payloads and response bodies mark no name.
C20_DeclaredOnlyByTopLevel ==
    \A n \in DOMAIN types_usage :
        ~types_usage[n].some => \E i \in 1..Len(types) : DeclaredAt(i, n)


---------------------------------------------------------------------------
(* Properties of a run (Spec): the tracker from step to step *)

IsPrefix(a, b) == Len(a) <= Len(b) /\ SubSeq(b, 1, Len(a)) = a

\* The step leaves parse() running or returns from the reconciliation: the
\* tracker is not dropped by an early return
RunGoesOn == outcome'.kind \notin {"abort", "panic"}

\* C21: within a run an entry marked declared stays declared, no entry is
\* removed, and an entry holding sites keeps them, in their order, until it
\* is marked declared.
C21_TrackerIsMonotonic ==
    [][RunGoesOn =>
          \A n \in DOMAIN types_usage :
              /\ n \in DOMAIN types_usage'
              /\ ~types_usage[n].some => types_usage'[n] = None
              /\ (types_usage[n].some /\ types_usage'[n].some) =>
                    IsPrefix(types_usage[n].list, types_usage'[n].list)
      ]_vars

\* A is declared, then B refers to A: A's entry is still None
C21_Witness ==
    /\ phase = "types"
    /\ Len(types) = 2
    /\ DeclaredAt(1, nA)
    /\ DeclaredAt(2, nB)
    /\ RefsInDecl(types[2].val.property_decls, 1, nA) = 1
    /\ types_usage[nA] = None


---------------------------------------------------------------------------
(* Properties of a run (Spec): what ends a run early *)

\* C22: a malformed entry of a fragment gives a failure at its place in the
\* result sequence and the parsing goes on with the entries after it; a
\* fragment that is not a mapping is given up without the results of the
\* other fragments being lost.  So no entry and no fragment makes parse()
\* panic or return early: an early return comes only from main.yaml's own
\* sections and the files they import.
C22_MalformedEntryIsPerItem ==
    /\ outcome.kind # "panic"
    /\ outcome.kind = "abort" => outcome.err.tag = "ImportError"


---------------------------------------------------------------------------
(* Properties of the type parser on one declaration (SpecType): the        *)
(* bracket group                                                           *)

\* The subtype strings of the bracket group of a tree: its own arguments
GroupOf(t) ==
    IF t.k = "array" THEN <<Render(t.e)>> ELSE <<t.key, Render(t.e)>>

\* C23: the bracket group is split at the commas of its own depth only, a
\* comma of a nested group does not split, and the one space after a
\* splitting comma is skipped: the subtype strings of name[e1, e2] are the
\* texts of e1 and e2.
C23_SplitsAtOwnDepth ==
    (TypeParsed /\ OneExpr) =>
        \A x \in ShapesOf(expr) :
            x.t.k # "name" =>
                /\ subtypes(expr, Len(IF x.t.k = "array" THEN t_array ELSE t_dict)).st = "ok"
                /\ subtypes(expr, Len(IF x.t.k = "array" THEN t_array ELSE t_dict)).subs
                      = GroupOf(x.t)

\* Expressions whose bracket group is not closed, or has an empty entry
BrokenGroups ==
    { e_array_open, e_dict_open, e_array_none, e_dict_none,
      e_dict_no_key, e_dict_no_value }

\* C24: an expression whose bracket group is unbalanced or holds an empty
\* subtype entry fails with SubtypeValuesEmptyDeclaration for its property.
C24_BrokenGroupIsError ==
    (TypeParsed /\ OneExpr /\ expr \in BrokenGroups) =>
        /\ TypeReturned
        /\ OutcomeOf(1) = Err(E("SubtypeValuesEmptyDeclaration"))


---------------------------------------------------------------------------
(* Properties of the interface parser on one declaration (SpecInterface):  *)
(* status-code keys, path and method                                       *)

\* The declaration has a path and a method, both strings
WellKeyed ==
    /\ has(t_path) /\ hash_index(decl, t_path).kind = "str"
    /\ has(t_method) /\ hash_index(decl, t_method).kind = "str"

\* The response is a mapping with custom status codes
CustomResponse ==
    /\ WellKeyed
    /\ has(t_response)
    /\ hash_index(decl, t_response).kind = "hash"
    /\ CustomCodes(hash_index(decl, t_response).v)

\* C25: in a response mapping with custom status codes every key is three
\* digits or a digit followed by `xx`; any other key makes the interface
\* fail, and every Prefix holds one digit.
C25_StatusCodeKeys ==
    (Parsed /\ CustomResponse) =>
        LET pairs == hash_index(decl, t_response).v
        IN  /\ (\E k \in 1..Len(pairs) : ~IsCodePattern(pairs[k].key)) =>
                  /\ outcome.kind # "panic"
                  /\ ~interfaces[1].ok
            /\ (outcome.kind # "panic" /\ interfaces[1].ok) =>
                  \A c \in DOMAIN interfaces[1].val.spec.responses.map :
                      c.kind = "Prefix" => c.val \in 0..9

\* C26: a declaration whose path is absent or no string fails with
\* InvalidIdent, one whose method is absent, no string or none of the six
\* methods fails with InvalidMethod, as the outcome of that declaration.
C26_PathAndMethod ==
    Parsed =>
        /\ (~has(t_path) \/ hash_index(decl, t_path).kind # "str") =>
              /\ outcome.kind # "panic"
              /\ interfaces = <<Err(E("InvalidIdent"))>>
        /\ (/\ has(t_path)
            /\ hash_index(decl, t_path).kind = "str"
            /\ \/ ~has(t_method)
               \/ hash_index(decl, t_method).kind # "str"
               \/ hash_index(decl, t_method).v
                     \notin {t_get, t_post, t_put, t_delete, t_patch, t_head}) =>
              /\ outcome.kind # "panic"
              /\ interfaces = <<Err(E("InvalidMethod"))>>


---------------------------------------------------------------------------
(* Properties of a run (Spec): imports of imported fragments *)

\* The fragment being read was imported by a document and holds `_import`
InChainedFragment ==
    /\ phase = "types"
    /\ level = "imported"
    /\ YStr(t_import) \in src_keys

\* C27: imports chain to any depth: a declaration read from a fragment
\* that an imported fragment imports is parsed, is in the type results and
\* its name counts as declared.
C27_ImportsChain ==
    (InChainedFragment /\ TypeDeclarationRead) =>
        /\ LastReadIsLastParsed(types, NamesTypeRead)
        /\ (\E i \in 1..Len(types) : DeclaredAt(i, input.key.v)) =>
               types_usage[input.key.v] = None



\* The index of the last parsed type declaration named n
LastDeclared(n) ==
    CHOOSE i \in DOMAIN types :
        /\ DeclaredAt(i, n)
        /\ \A j \in DOMAIN types : DeclaredAt(j, n) => j <= i

\* C28: when the parsed types hold two declarations of one name, an
\* interface whose response is that bare name resolves to the properties of
\* the later declaration.
C28_LaterDeclarationOverrides ==
    (/\ Parsed
     /\ PayloadAccepted
     /\ has(t_response)
     /\ hash_index(decl, t_response).kind = "str"
     /\ \E i, j \in DOMAIN types :
            /\ i < j
            /\ DeclaredAt(i, hash_index(decl, t_response).v)
            /\ DeclaredAt(j, hash_index(decl, t_response).v)) =>
        /\ interfaces # <<>> /\ interfaces[1].ok
        /\ interfaces[1].val.spec.responses
              = SomeResponses(
                   [c \in {Fixed(200)} |->
                       TypeDecl(hash_index(decl, t_response).v,
                                types[LastDeclared(hash_index(decl, t_response).v)]
                                    .val.property_decls)])


\* C29: an `_import` value that is neither a string nor a sequence of
\* strings only (a sequence with a non-string element among strings
\* included) gives exactly one outcome, the failure InvalidImportValue; a
\* node that is not a mapping fails with InvalidInputSource.
C29_InvalidImportValue ==
    Detected =>
        /\ source.kind # "hash" =>
              outcome.st = "err" /\ outcome.err = E("InvalidInputSource")
        /\ (HasImport /\ import_value.kind # "str" /\ ~PathSequence) =>
              outcome.st = "ok" /\ outcome.val = <<Err(E("InvalidImportValue"))>>


\* C30: when the parser returns an error for an interface declaration, at
\* whatever step, the tracker is what it was before the declaration was
\* parsed.
C30_RejectedInterfaceLeavesTracker ==
    (Parsed /\ interfaces # <<>> /\ ~interfaces[1].ok) =>
        types_usage = TrackerBefore

=============================================================================
